---- MODULE Spec2Model ----
(***************************************************************************)
(* Verification model of the ngx-rust safety bridge:                       *)
(*   - core::Pool   (src/src/core/pool.rs)  arena wrapper + cleanup list   *)
(*   - core::Array  (src/src/core/array.rs) view over a host ngx_array_t   *)
(*   - command!     (src/src/http/conf/macros.rs) directive dispatch       *)
(*   - the flag handlers of examples/curl.rs and examples/awssig.rs        *)
(*   - Command::new (src/src/http/conf/command.rs) type_ bitmask           *)
(*   - Merge::merge of examples/curl.rs, examples/awssig.rs and ()         *)
(*   - NgxConf::new and the lifecycle callbacks of RawHttpModule,          *)
(*     HttpModule and SafeHttpModule (src/src/http/module.rs,              *)
(*     src/src/http/module_safe.rs), run over the http, server and         *)
(*     location tiers of one configuration file                            *)
(*                                                                         *)
(* The host primitives the Rust code calls (ngx_palloc, ngx_pcalloc,       *)
(* ngx_pool_cleanup_add, ngx_destroy_pool, ngx_array_push) are modelled at *)
(* the call sites with the behaviour of the nginx C implementation the     *)
(* crate links against.                                                    *)
(***************************************************************************)
EXTENDS Integers, Sequences, FiniteSets, TLC

\* ------------------------------------------------------------------ bounds
\* number of values handed to Pool::allocate / allocate_uninit_zeroed
MaxValues == 3
\* number of arena blocks the host arena can hand out
MaxBlocks == 6

\* number of elements an Array is grown to
MaxNelts == 3
\* the element values pushed (handlers, strings): 1..MaxElem
MaxElem == 2

\* largest number of arguments after the directive name
MaxArgs == 2
\* cap of the u128 the documented handler accumulates
MaxLocConf == 14

\* longest list of allowed contexts given to Command::new
MaxContexts == 2
\* number of distinct non-empty strings a configuration field can hold
MaxStrings == 2
\* largest address a raw pointer handed to NgxConf::new holds
MaxAddr == 17
\* number of directives of the module in one configuration file
MaxDirectives == 4
\* longest static string handed to create_buffer_from_static_str
MaxStaticLen == 2
\* most handler registrations in one configuration load
MaxRegistrations == 3

\* the null pointer
NULL == 0
\* NonNull::dangling(): non-null, never an arena address
DANGLING == -1

Addr == 1..MaxBlocks
ValueId == 1..MaxValues

VARIABLES
    mem,        \* arena memory: Addr -> cell
    brk,        \* number of arena blocks handed out so far (ngx_palloc bump pointer)
    cleanup,    \* ngx_pool_t.cleanup: head of the cleanup list (NULL when empty)
    nvals,      \* number of values created so far
    drops,      \* ValueId -> number of times the value's destructor has run
    registered, \* values for which Pool::allocate returned Some (non zero-sized), in call order
    dropOrder,  \* values whose destructor was run by arena teardown, in run order
    destroyed,  \* the arena has been torn down
    poolRet,    \* what the last Pool operation did and returned
    arr,        \* the host ngx_array_t header: elts, nelts, nalloc
    stores,     \* the element storages handed out to the array, by storage id
    slice,      \* the slice the last Deref / DerefMut returned: ptr, len
    arrRet,     \* what the last Array operation did and returned
    locConf,    \* LocConf(u128) of the documented command! example
    curlConf,   \* ModuleConfig of examples/curl.rs: enable
    awsEnable,  \* ModuleConfig.enable of examples/awssig.rs
    dispRet,    \* what the last directive dispatch did and returned
    cmd,        \* the Command the last Command::new built
    mergeRet,   \* what the last Merge::merge call did and returned
    ngxConf,    \* what the last NgxConf::new was given and returned
    lcModule,   \* the module being configured: its trait family and module pointer
    lcPc,       \* the lifecycle step the host runs next
    lcTiers,    \* the LocConf value of each tier: 1 Global, 2 Group, 3 Route
    lcParsed,   \* the tier values as the directives left them, before any merge
    lcSaid,     \* the directives the parser has dispatched: <<tier, name, token>>
    lcCount,    \* number of directives the parser has dispatched
    lcMerges,   \* what each merge_loc_conf call returned, in call order
    lcRet,      \* what the last lifecycle callback did and returned
    phMainConf, \* the host's Global configuration slots, by ctx_index, read as core configurations
    phLog,      \* the successful handler registrations, in call order: slot, phase, handler
    phCalls,    \* number of registration calls made so far
    phRet       \* what the last registration did and returned

poolVars == <<mem, brk, cleanup, nvals, drops, registered, dropOrder, destroyed, poolRet>>
arrayVars == <<arr, stores, slice, arrRet>>
dispVars == <<locConf, curlConf, awsEnable, dispRet>>
cmdVars == <<cmd>>
mergeVars == <<mergeRet>>
ngxConfVars == <<ngxConf>>
lifeVars == <<lcModule, lcPc, lcTiers, lcParsed, lcSaid, lcCount, lcMerges, lcRet>>
\* the state of the http configuration layer
phaseVars == <<phMainConf, phLog, phCalls, phRet>>

confVars == <<cmdVars, mergeVars, ngxConfVars, lifeVars, phaseVars>>

\* ------------------------------------------------------- arena memory cells
FreeCell == [kind |-> "free"]
\* a T written with ptr::write
ValueCell(v) == [kind |-> "value", value |-> v]
\* a zeroed, untyped block from ngx_pcalloc
ZeroCell == [kind |-> "zeroed"]
\* an ngx_pool_cleanup_s
ClnCell(h, d, n) == [kind |-> "cln", handler |-> h, data |-> d, next |-> n]

\* ---------------------------------------------------------- host primitives
\* ngx_palloc(pool, size) / ngx_pcalloc(pool, size) with b blocks handed out so
\* far: a fresh block, or NULL when the host cannot provide one
ngx_palloc(b, ok) == IF ok /\ b < MaxBlocks THEN b + 1 ELSE NULL

\* ngx_pool_cleanup_add(pool, 0): allocates the entry, links it in FRONT of the
\* list (c->next = p->cleanup; p->cleanup = c), handler = NULL, data = NULL.
\* Returns the memory, bump pointer, list head and entry address after the call.
ngx_pool_cleanup_add(m, b, head, ok) ==
    IF ngx_palloc(b, ok) # NULL
    THEN [mem     |-> [m EXCEPT ![b + 1] = ClnCell("none", NULL, head)],
          brk     |-> b + 1,
          cleanup |-> b + 1,
          cln     |-> b + 1]
    ELSE [mem |-> m, brk |-> b, cleanup |-> head, cln |-> NULL]

\* The entries ngx_destroy_pool visits: from p->cleanup along ->next.
RECURSIVE CleanupChain(_, _)
CleanupChain(m, c) ==
    IF c = NULL THEN <<>> ELSE <<c>> \o CleanupChain(m, m[c].next)

\* ------------------------------------------------------------------- Pool
\* the state a Pool operation works on
PoolState == [mem |-> mem, brk |-> brk, cleanup |-> cleanup, drops |-> drops]

\* mutant: the null check accepts the failure path for a linked entry
add_cleanup_for_value_badcheck(m, b, head, p, ok) ==
    LET r == ngx_pool_cleanup_add(m, b, head, ok) IN
    [mem |-> r.mem, brk |-> r.brk, cleanup |-> r.cleanup, ok |-> FALSE]

\* Pool::add_cleanup_for_value: the entry returned by the host is overwritten
\* as a whole: handler = cleanup_type::<T>, data = value, next = null.
add_cleanup_for_value(m, b, head, p, ok) ==
    LET r == ngx_pool_cleanup_add(m, b, head, ok) IN
    IF r.cln = NULL
    THEN [mem |-> m, brk |-> b, cleanup |-> head, ok |-> FALSE]
    ELSE [mem     |-> [r.mem EXCEPT ![r.cln] = ClnCell("cleanup_type", p, NULL)],
          brk     |-> r.brk,
          cleanup |-> r.cleanup,
          ok      |-> TRUE]

\* mutant: the destructor is not run
drop_in_place_forgotten(d, v) == d

\* ptr::drop_in_place / end of scope of an owned T: T's destructor runs once more
drop_in_place(d, v) == [d EXCEPT ![v] = @ + 1]

\* cleanup_type::<T>(data): ptr::drop_in_place(data as *mut T)
cleanup_type(d, m, data) ==
    IF m[data].kind = "value" THEN drop_in_place(d, m[data].value) ELSE d

\* Pool::allocate, size_of::<T>() == 0: Some(NonNull::dangling()); the value
\* passed by move goes out of scope
allocate_zst(st, v) ==
    [mem |-> st.mem, brk |-> st.brk, cleanup |-> st.cleanup,
     drops |-> drop_in_place(st.drops, v),
     some |-> TRUE, ptr |-> DANGLING, calls |-> <<>>]

\* Pool::allocate of a sized T; okAlloc and okCln are the host's answers to
\* ngx_palloc and to ngx_pool_cleanup_add
allocate_sized(st, v, okAlloc, okCln) ==
    LET p == ngx_palloc(st.brk, okAlloc)
        written == [st.mem EXCEPT ![p] = ValueCell(v)]
        c == add_cleanup_for_value(written, p, st.cleanup, p, okCln)
    IN
    IF p = NULL
    THEN \* NonNull::new(p)? returns None; `value` goes out of scope
         [mem |-> st.mem, brk |-> st.brk, cleanup |-> st.cleanup,
          drops |-> drop_in_place(st.drops, v),
          some |-> FALSE, ptr |-> NULL,
          calls |-> <<[fn |-> "ngx_palloc", ret |-> NULL]>>]
    ELSE IF ~c.ok
    THEN \* ptr::drop_in_place(p); return None
         [mem |-> c.mem, brk |-> c.brk, cleanup |-> c.cleanup,
          drops |-> drop_in_place(st.drops, v),
          some |-> FALSE, ptr |-> NULL,
          calls |-> <<[fn |-> "ngx_palloc", ret |-> p],
                      [fn |-> "ngx_pool_cleanup_add", ret |-> NULL]>>]
    ELSE [mem |-> c.mem, brk |-> c.brk, cleanup |-> c.cleanup,
          drops |-> st.drops,
          some |-> TRUE, ptr |-> p,
          calls |-> <<[fn |-> "ngx_palloc", ret |-> p],
                      [fn |-> "ngx_pool_cleanup_add", ret |-> c.cleanup]>>]

\* mutant: no zero-size special case
allocate_always_host(st, v, zst, okAlloc, okCln) ==
    allocate_sized(st, v, okAlloc, okCln)

\* Pool::allocate::<T>(value), zst iff size_of::<T>() == 0
allocate(st, v, zst, okAlloc, okCln) ==
    IF zst THEN allocate_zst(st, v) ELSE allocate_sized(st, v, okAlloc, okCln)

\* mutant: the block is handed out as ngx_palloc leaves it, not zeroed
allocate_uninit_zeroed_not_zeroed(st, zst, okAlloc) ==
    LET p == ngx_palloc(st.brk, okAlloc) IN
    IF zst
    THEN [mem |-> st.mem, brk |-> st.brk, some |-> TRUE, ptr |-> DANGLING,
          calls |-> <<>>]
    ELSE IF p = NULL
    THEN [mem |-> st.mem, brk |-> st.brk, some |-> FALSE, ptr |-> NULL,
          calls |-> <<[fn |-> "ngx_pcalloc", ret |-> NULL]>>]
    ELSE [mem |-> st.mem, brk |-> p, some |-> TRUE, ptr |-> p,
          calls |-> <<[fn |-> "ngx_pcalloc", ret |-> p]>>]

\* Pool::allocate_uninit_zeroed::<T>(); okAlloc is the host's answer to ngx_pcalloc
allocate_uninit_zeroed(st, zst, okAlloc) ==
    LET p == ngx_palloc(st.brk, okAlloc) IN
    IF zst
    THEN [mem |-> st.mem, brk |-> st.brk, some |-> TRUE, ptr |-> DANGLING,
          calls |-> <<>>]
    ELSE IF p = NULL
    THEN [mem |-> st.mem, brk |-> st.brk, some |-> FALSE, ptr |-> NULL,
          calls |-> <<[fn |-> "ngx_pcalloc", ret |-> NULL]>>]
    ELSE [mem |-> [st.mem EXCEPT ![p] = ZeroCell], brk |-> p, some |-> TRUE, ptr |-> p,
          calls |-> <<[fn |-> "ngx_pcalloc", ret |-> p]>>]

\* the `&'static str` arguments of create_buffer_from_static_str
StaticStrs == {[i \in 1..n |-> IF i % 2 = 1 THEN "a" ELSE "b"] : n \in 0..MaxStaticLen}

\* the ngx_buf_t literal built from str: start/pos at the first byte, last/end one
\* past the final byte (offsets into the static string), bit-field defaulted
ngx_buf_t(str) ==
    [base |-> str, start |-> 0, pos |-> 0, last |-> Len(str), end |-> Len(str),
     memory |-> 0]

\* ngx_buf_t::set_memory(bit) on the header b
set_memory(b, bit) == [b EXCEPT !.memory = bit]

\* an arena block holding value v, an ngx_buf_t with header b
BufCell(v, b) == [kind |-> "value", value |-> v, buf |-> b]

\* Buffer::len
Buffer_len(b) == b.last - b.pos

\* Buffer::as_bytes
Buffer_as_bytes(b) == SubSeq(b.base, b.pos + 1, b.pos + Buffer_len(b))

\* Pool::create_buffer_from_static_str(str); v names the header value.
\* `unsafe { *buf.as_ptr() }` is a block expression: it yields a copy of the
\* header, and set_memory(1) acts on that copy (temp), not on the arena block.
create_buffer_from_static_str(st, v, str, okAlloc, okCln) ==
    LET r == allocate(st, v, FALSE, okAlloc, okCln)
        p == r.calls[1].ret
        m == IF p # NULL THEN [r.mem EXCEPT ![p] = BufCell(v, ngx_buf_t(str))] ELSE r.mem
    IN
    [mem |-> m, brk |-> r.brk, cleanup |-> r.cleanup, drops |-> r.drops,
     some |-> r.some, ptr |-> r.ptr, calls |-> r.calls,
     temp |-> IF r.some THEN set_memory(m[r.ptr].buf, 1) ELSE ngx_buf_t(str)]

PoolInit ==
    /\ mem = [a \in Addr |-> FreeCell]
    /\ brk = 0
    /\ cleanup = NULL
    /\ nvals = 0
    /\ drops = [v \in ValueId |-> 0]
    /\ registered = <<>>
    /\ dropOrder = <<>>
    /\ destroyed = FALSE
    /\ poolRet = [op |-> "none"]

\* a call of Pool::allocate with a fresh value
Allocate(zst, okAlloc, okCln) ==
    /\ ~destroyed
    /\ nvals < MaxValues
    /\ LET v == nvals + 1
           r == allocate(PoolState, v, zst, okAlloc, okCln)
       IN
       /\ nvals' = v
       /\ mem' = r.mem
       /\ brk' = r.brk
       /\ cleanup' = r.cleanup
       /\ drops' = r.drops
       /\ registered' = IF r.some /\ r.ptr # DANGLING THEN Append(registered, v)
                        ELSE registered
       /\ poolRet' = [op |-> "allocate", value |-> v, zst |-> zst, some |-> r.some,
                      ptr |-> r.ptr, calls |-> r.calls,
                      before |-> [mem |-> mem, brk |-> brk, cleanup |-> cleanup]]
       /\ UNCHANGED <<dropOrder, destroyed>>
       /\ UNCHANGED <<arrayVars, dispVars, confVars>>

\* a call of Pool::allocate_uninit_zeroed
AllocateUninitZeroed(zst, okAlloc) ==
    /\ ~destroyed
    /\ LET r == allocate_uninit_zeroed(PoolState, zst, okAlloc) IN
       /\ mem' = r.mem
       /\ brk' = r.brk
       /\ poolRet' = [op |-> "allocate_uninit_zeroed", value |-> 0, zst |-> zst,
                      some |-> r.some, ptr |-> r.ptr, calls |-> r.calls,
                      before |-> [mem |-> mem, brk |-> brk, cleanup |-> cleanup]]
       /\ UNCHANGED <<cleanup, nvals, drops, registered, dropOrder, destroyed>>
       /\ UNCHANGED <<arrayVars, dispVars, confVars>>

\* a call of Pool::create_buffer_from_static_str
CreateBufferFromStaticStr(str, okAlloc, okCln) ==
    /\ ~destroyed
    /\ nvals < MaxValues
    /\ LET v == nvals + 1
           r == create_buffer_from_static_str(PoolState, v, str, okAlloc, okCln)
       IN
       /\ nvals' = v
       /\ mem' = r.mem
       /\ brk' = r.brk
       /\ cleanup' = r.cleanup
       /\ drops' = r.drops
       /\ registered' = IF r.some THEN Append(registered, v) ELSE registered
       /\ poolRet' = [op |-> "create_buffer_from_static_str", value |-> v, zst |-> FALSE,
                      some |-> r.some, ptr |-> r.ptr, calls |-> r.calls,
                      str |-> str, temp |-> r.temp,
                      before |-> [mem |-> mem, brk |-> brk, cleanup |-> cleanup]]
       /\ UNCHANGED <<dropOrder, destroyed>>
       /\ UNCHANGED <<arrayVars, dispVars, confVars>>

\* destructor counts after running the handlers of the entries in chain, in order
RECURSIVE RunHandlers(_, _, _)
RunHandlers(d, m, chain) ==
    IF chain = <<>> THEN d
    ELSE RunHandlers(IF m[Head(chain)].handler = "cleanup_type"
                     THEN cleanup_type(d, m, m[Head(chain)].data)
                     ELSE d,
                     m, Tail(chain))

\* the values whose destructor a teardown of (m, head) runs, in run order
TeardownOrder(m, head) ==
    LET ran == SelectSeq(CleanupChain(m, head),
                         LAMBDA c : m[c].handler = "cleanup_type" /\ m[m[c].data].kind = "value")
    IN [i \in 1..Len(ran) |-> m[m[ran[i]].data].value]

\* ngx_destroy_pool: for (c = pool->cleanup; c; c = c->next) if (c->handler) c->handler(c->data)
DestroyPool ==
    /\ ~destroyed
    /\ drops' = RunHandlers(drops, mem, CleanupChain(mem, cleanup))
    /\ dropOrder' = TeardownOrder(mem, cleanup)
    /\ destroyed' = TRUE
    /\ poolRet' = [op |-> "destroy"]
    /\ UNCHANGED <<mem, brk, cleanup, nvals, registered>>
    /\ UNCHANGED <<arrayVars, dispVars, confVars>>

NextPool ==
    \/ \E zst \in BOOLEAN, okAlloc \in BOOLEAN, okCln \in BOOLEAN : Allocate(zst, okAlloc, okCln)
    \/ \E zst \in BOOLEAN, okAlloc \in BOOLEAN : AllocateUninitZeroed(zst, okAlloc)
    \/ \E str \in StaticStrs, okAlloc \in BOOLEAN, okCln \in BOOLEAN :
           CreateBufferFromStaticStr(str, okAlloc, okCln)
    \/ DestroyPool


\* ------------------------------------------------------------------ Array
Elem == 1..MaxElem
\* a slot of a storage that was never written
UNINIT == 0

\* the null element pointer
NullElt == [store |-> NULL, idx |-> 0]

\* the ngx_array_t an Array view is created over: one allocated slot, no element
InitArr == [elts |-> 1, nelts |-> 0, nalloc |-> 1]

\* ngx_array_push(a): when the array is full the host either extends the
\* storage in place (it is the last allocation of its pool block), or moves
\* the elements to a new storage of twice the size, or fails with NULL; then
\* it returns the address of slot nelts and increments nelts.
\* grow is the host's choice for a full array. Returns header, storages and
\* the element address (storage id and slot index, or the null pointer).
ngx_array_push(a, st, grow) ==
    LET full == a.nelts = a.nalloc
        pad(n) == [i \in 1..n |-> UNINIT]
        a1 == IF ~full THEN a
              ELSE IF grow = "inplace" THEN [a EXCEPT !.nalloc = @ + 1]
              ELSE [a EXCEPT !.elts = Len(st) + 1, !.nalloc = 2 * @]
        st1 == IF ~full THEN st
               ELSE IF grow = "inplace" THEN [st EXCEPT ![a.elts] = @ \o pad(1)]
               ELSE Append(st, SubSeq(st[a.elts], 1, a.nalloc) \o pad(a.nalloc))
    IN
    IF full /\ grow = "fail"
    THEN [arr |-> a, stores |-> st, elt |-> NullElt]
    ELSE [arr    |-> [a1 EXCEPT !.nelts = @ + 1],
          stores |-> st1,
          elt    |-> [store |-> a1.elts, idx |-> a.nelts + 1]]

\* mutant: the value is written at the start of the array, not at the
\* address ngx_array_push returned
push_at_base(a, st, value, grow) ==
    LET r == ngx_array_push(a, st, grow) IN
    IF r.elt = NullElt
    THEN [arr |-> a, stores |-> st, ok |-> FALSE]
    ELSE [arr    |-> r.arr,
          stores |-> [r.stores EXCEPT ![r.arr.elts][1] = value],
          ok     |-> TRUE]

\* Array::push(value)
push(a, st, value, grow) ==
    LET r == ngx_array_push(a, st, grow) IN
    IF r.elt = NullElt
    THEN [arr |-> a, stores |-> st, ok |-> FALSE]
    ELSE [arr    |-> r.arr,
          stores |-> [r.stores EXCEPT ![r.elt.store][r.elt.idx] = value],
          ok     |-> TRUE]

\* mutant: pointer and count are the ones seen when the view was created
deref_cached(a) == [ptr |-> InitArr.elts, len |-> InitArr.nelts]

\* Deref::deref: copies the header and builds the slice from its elts and nelts
deref(a) == [ptr |-> a.elts, len |-> a.nelts]

\* DerefMut::deref_mut: as deref, for a mutable slice
deref_mut(a) == [ptr |-> a.elts, len |-> a.nelts]

\* the elements a slice covers
SliceItems(st, sl) == SubSeq(st[sl.ptr], 1, sl.len)

ArrayInit ==
    /\ arr = InitArr
    /\ stores = << <<UNINIT>> >>
    /\ slice = [ptr |-> NULL, len |-> 0]
    /\ arrRet = [op |-> "none"]

\* a call of Array::push
Push(value, grow) ==
    /\ arr.nelts < MaxNelts
    /\ LET r == push(arr, stores, value, grow) IN
       /\ arr' = r.arr
       /\ stores' = r.stores
       /\ arrRet' = [op |-> "push", ok |-> r.ok, value |-> value,
                     host |-> ngx_array_push(arr, stores, grow).elt,
                     before |-> [arr |-> arr, items |-> SliceItems(stores, deref(arr))]]
       /\ UNCHANGED slice
       /\ UNCHANGED <<poolVars, dispVars, confVars>>

\* a read access through the view: &array[..]
Deref ==
    /\ slice' = deref(arr)
    /\ arrRet' = [op |-> "deref"]
    /\ UNCHANGED <<arr, stores>>
    /\ UNCHANGED <<poolVars, dispVars, confVars>>

\* a write access through the view: array[i] = value (bounds-checked)
DerefMut(i, value) ==
    /\ LET sl == deref_mut(arr) IN
       /\ i \in 1..sl.len
       /\ slice' = sl
       /\ stores' = [stores EXCEPT ![sl.ptr][i] = value]
    /\ arrRet' = [op |-> "deref_mut"]
    /\ UNCHANGED arr
    /\ UNCHANGED <<poolVars, dispVars, confVars>>

NextArray ==
    \/ \E value \in Elem, grow \in {"inplace", "realloc", "fail"} : Push(value, grow)
    \/ Deref
    \/ \E i \in 1..MaxNelts, value \in Elem : DerefMut(i, value)


\* --------------------------------------------------------------- dispatch
\* strings are sequences of one-character strings
Upper == <<"A", "B", "C", "D", "E", "F", "G", "H", "I", "J", "K", "L", "M",
           "N", "O", "P", "Q", "R", "S", "T", "U", "V", "W", "X", "Y", "Z">>
Lower == <<"a", "b", "c", "d", "e", "f", "g", "h", "i", "j", "k", "l", "m",
           "n", "o", "p", "q", "r", "s", "t", "u", "v", "w", "x", "y", "z">>
Digits == <<"0", "1", "2", "3", "4", "5", "6", "7", "8", "9">>

\* u8::to_ascii_lowercase
to_ascii_lowercase(c) ==
    IF \E i \in 1..26 : Upper[i] = c
    THEN Lower[CHOOSE i \in 1..26 : Upper[i] = c]
    ELSE c

\* str::eq_ignore_ascii_case
eq_ignore_ascii_case(a, b) ==
    /\ Len(a) = Len(b)
    /\ \A i \in 1..Len(a) : to_ascii_lowercase(a[i]) = to_ascii_lowercase(b[i])

IsDigit(c) == \E i \in 1..10 : Digits[i] = c
DigitValue(c) == (CHOOSE i \in 1..10 : Digits[i] = c) - 1

\* str::parse::<u128>() on a string of decimal digits
RECURSIVE ParseDigits(_)
ParseDigits(t) ==
    IF t = <<>> THEN 0
    ELSE 10 * ParseDigits(SubSeq(t, 1, Len(t) - 1)) + DigitValue(t[Len(t)])

\* str::parse::<u128>(): Err on an empty string or a non-digit
parse_u128(t) ==
    IF t # <<>> /\ \A i \in 1..Len(t) : IsDigit(t[i])
    THEN [ok |-> TRUE, value |-> ParseDigits(t)]
    ELSE [ok |-> FALSE, value |-> 0]

\* host sentinels returned by a directive callback
NGX_CONF_OK == NULL
NGX_CONF_ERROR == -1
\* no value is returned: the callback panicked
PANICKED == -2

\* a valid (non-null, aligned) pointer handed over by the host
VALID == 1

\* the argument tokens the host parser hands to the documented handler
NumTokens == { <<"1">>, <<"1", "2">>, <<"o", "n">>, <<>> }
\* the tokens given to a flag directive
FlagTokens == { <<"o", "n">>, <<"O", "N">>, <<"O", "n">>, <<"o", "N">>,
                <<"o", "f", "f">>, <<"O", "F", "F">>, <<"O", "f", "f">>,
                <<"y", "e", "s">>, <<"o">>, <<"o", "n", "e">>, <<"1">>, <<>> }

\* cf->args for a directive with n arguments: the name, then the arguments
Argv(name, tokens, n) ==
    { <<name>> \o a : a \in [1..n -> tokens] }

\* set_loc_conf of the command! documentation: the handler the bridge wraps
set_loc_conf(args, conf) ==
    LET first_arg == parse_u128(args[1]) IN
    IF ~first_arg.ok
    THEN [ok |-> FALSE, conf |-> conf]
    ELSE [ok |-> TRUE, conf |-> conf + first_arg.value]

\* mutant: the handler gets the whole array, name included
skip_name_not(argv) == argv

\* let args = &args[1..];
skip_name(argv) == SubSeq(argv, 2, Len(argv))

\* mutant: success is reported whatever the handler returned
conf_status_always_ok(ok) == NGX_CONF_OK

\* if output.is_ok() { NGX_CONF_OK } else { NGX_CONF_ERROR }
conf_status(ok) == IF ok THEN NGX_CONF_OK ELSE NGX_CONF_ERROR

\* command!::__raw_c_handler_(cf, _cmd, conf): confPtr is conf, argsPtr is
\* (*cf).args, argv the array it points to
raw_c_handler(confPtr, argsPtr, argv, conf) ==
    IF confPtr = NULL \/ argsPtr = NULL \/ Len(argv) < 1
    THEN \* Option::unwrap on None, or slice index out of range
         [ret |-> PANICKED, conf |-> conf, calls |-> 0, seen |-> <<>>, ok |-> FALSE]
    ELSE LET args == skip_name(argv)
             output == set_loc_conf(args, conf)
         IN [ret |-> conf_status(output.ok), conf |-> output.conf, calls |-> 1,
             seen |-> args, ok |-> output.ok]

\* the flag value set_curl and ngx_http_awssigv4_commands_set_enable compute
\* from val = args[1]
flag_value(val) ==
    IF Len(val) = 2 /\ eq_ignore_ascii_case(val, <<"o", "n">>) THEN TRUE
    ELSE IF Len(val) = 3 /\ eq_ignore_ascii_case(val, <<"o", "f", "f">>) THEN FALSE
    ELSE FALSE

\* examples/curl.rs set_curl(conf, args): args is the whole array
set_curl(conf, argv) ==
    [ok |-> TRUE, conf |-> [conf EXCEPT !.enable = flag_value(argv[2])]]

\* examples/awssig.rs ngx_http_awssigv4_commands_set_enable(cf, _cmd, conf)
set_enable(confPtr, argsPtr, argv, enable) ==
    IF confPtr = NULL \/ argsPtr = NULL
    THEN [ret |-> PANICKED, enable |-> enable]
    ELSE [ret |-> NULL, enable |-> flag_value(argv[2])]

DispInit ==
    /\ locConf = 0
    /\ curlConf = [enable |-> FALSE]
    /\ awsEnable = FALSE
    /\ dispRet = [op |-> "none"]

\* the host parser calls the callback command! generated
RawCHandler(confPtr, argsPtr, argv) ==
    LET r == raw_c_handler(confPtr, argsPtr, argv, locConf) IN
    /\ r.conf <= MaxLocConf
    /\ locConf' = r.conf
    /\ dispRet' = [op |-> "raw_c_handler", confPtr |-> confPtr, argsPtr |-> argsPtr,
                   argv |-> argv, ret |-> r.ret, calls |-> r.calls, seen |-> r.seen,
                   ok |-> r.ok, before |-> locConf]
    /\ UNCHANGED <<curlConf, awsEnable>>
    /\ UNCHANGED <<poolVars, arrayVars, confVars>>

\* the host parser met `curl <token>;`
SetCurl(argv) ==
    LET r == set_curl(curlConf, argv) IN
    /\ curlConf' = r.conf
    /\ dispRet' = [op |-> "set_curl", confPtr |-> VALID, argsPtr |-> VALID,
                   argv |-> argv, ret |-> NULL, calls |-> 1, seen |-> argv,
                   ok |-> r.ok, before |-> 0]
    /\ UNCHANGED <<locConf, awsEnable>>
    /\ UNCHANGED <<poolVars, arrayVars, confVars>>

\* the host parser met `awssigv4 <token>;`
AwsSetEnable(confPtr, argsPtr, argv) ==
    LET r == set_enable(confPtr, argsPtr, argv, awsEnable) IN
    /\ awsEnable' = r.enable
    /\ dispRet' = [op |-> "set_enable", confPtr |-> confPtr, argsPtr |-> argsPtr,
                   argv |-> argv, ret |-> r.ret, calls |-> 0, seen |-> <<>>,
                   ok |-> r.ret = NGX_CONF_OK, before |-> 0]
    /\ UNCHANGED <<locConf, curlConf>>
    /\ UNCHANGED <<poolVars, arrayVars, confVars>>

NextDispatch ==
    \/ \E confPtr \in {NULL, VALID}, argsPtr \in {NULL, VALID}, n \in 1..MaxArgs :
          \E argv \in Argv(<<"s", "e", "t">>, NumTokens, n) :
              RawCHandler(confPtr, argsPtr, argv)
    \/ \E argv \in Argv(<<"c", "u", "r", "l">>, FlagTokens, 1) : SetCurl(argv)
    \/ \E confPtr \in {NULL, VALID}, argsPtr \in {NULL, VALID} :
          \E argv \in Argv(<<"a", "w", "s">>, FlagTokens, 1) :
              AwsSetEnable(confPtr, argsPtr, argv)

\* ---------------------------------------------------------------- Command
\* A u32 bitmask is modelled as the set of the positions of its one bits, so
\* that bit 31 (NGX_HTTP_LMT_CONF) needs no 32-bit arithmetic: a | b is the
\* union of the two sets.
BitOr(a, b) == a \cup b

\* the argument-count bits of ngx_command_t.type_
NGX_CONF_NOARGS == {0}
NGX_CONF_TAKE1 == {1}
NGX_CONF_TAKE2 == {2}
NGX_CONF_TAKE3 == {3}
NGX_CONF_TAKE4 == {4}
NGX_CONF_TAKE5 == {5}
NGX_CONF_TAKE6 == {6}
NGX_CONF_TAKE7 == {7}
NGX_CONF_FLAG == {9}
NGX_CONF_1MORE == {11}
NGX_CONF_2MORE == {12}
NGX_CONF_TAKE12 == BitOr(NGX_CONF_TAKE1, NGX_CONF_TAKE2)
NGX_CONF_TAKE13 == BitOr(NGX_CONF_TAKE1, NGX_CONF_TAKE3)
NGX_CONF_TAKE23 == BitOr(NGX_CONF_TAKE2, NGX_CONF_TAKE3)
NGX_CONF_TAKE123 == BitOr(NGX_CONF_TAKE12, NGX_CONF_TAKE3)
NGX_CONF_TAKE1234 == BitOr(NGX_CONF_TAKE123, NGX_CONF_TAKE4)

\* the scope bits of ngx_command_t.type_
NGX_MAIN_CONF == {24}
NGX_HTTP_MAIN_CONF == {25}
NGX_HTTP_SRV_CONF == {26}
NGX_HTTP_LOC_CONF == {27}
NGX_HTTP_UPS_CONF == {28}
NGX_HTTP_SIF_CONF == {29}
NGX_HTTP_LIF_CONF == {30}
NGX_HTTP_LMT_CONF == {31}

\* enum CommandContext
CommandContext == {"Main", "Http", "Srv", "Loc", "Ups", "ServerIf", "LocationIf",
                   "LimitExcept"}

\* CommandContext::into_cmd_ty
CommandContext_into_cmd_ty(c) ==
    CASE c = "Main" -> NGX_MAIN_CONF
      [] c = "Http" -> NGX_HTTP_MAIN_CONF
      [] c = "Srv" -> NGX_HTTP_SRV_CONF
      [] c = "Loc" -> NGX_HTTP_LOC_CONF
      [] c = "Ups" -> NGX_HTTP_UPS_CONF
      [] c = "ServerIf" -> NGX_HTTP_SIF_CONF
      [] c = "LocationIf" -> NGX_HTTP_LIF_CONF
      [] c = "LimitExcept" -> NGX_HTTP_LMT_CONF

\* enum ArgCount
ArgCount == {"OneOrMore", "TwoOrMore", "One", "Two", "Three", "Four", "Five", "Six",
             "Seven", "OneOrTwo", "OneOrThree", "TwoOrThree", "OneOrTwoOrThree",
             "OneOrThreeOrTwoOrFour"}

\* enum ArgType: None, Flag, Count(ArgCount)
ArgType == {"None", "Flag"} \cup ArgCount

\* ArgType::into_cmd_ty
ArgType_into_cmd_ty(t) ==
    CASE t = "None" -> NGX_CONF_NOARGS
      [] t = "Flag" -> NGX_CONF_FLAG
      [] t = "OneOrMore" -> NGX_CONF_1MORE
      [] t = "TwoOrMore" -> NGX_CONF_2MORE
      [] t = "One" -> NGX_CONF_TAKE1
      [] t = "Two" -> NGX_CONF_TAKE2
      [] t = "Three" -> NGX_CONF_TAKE3
      [] t = "Four" -> NGX_CONF_TAKE4
      [] t = "Five" -> NGX_CONF_TAKE5
      [] t = "Six" -> NGX_CONF_TAKE6
      [] t = "Seven" -> NGX_CONF_TAKE7
      [] t = "OneOrTwo" -> NGX_CONF_TAKE12
      [] t = "OneOrThree" -> NGX_CONF_TAKE13
      [] t = "TwoOrThree" -> NGX_CONF_TAKE23
      [] t = "OneOrTwoOrThree" -> NGX_CONF_TAKE123
      [] t = "OneOrThreeOrTwoOrFour" -> NGX_CONF_TAKE1234

\* the loop of Command::new from index idx (0-based) on: the element is read
\* before the length is compared, so an index past the end panics
RECURSIVE new_loop(_, _, _)
new_loop(ty, allowed_contexts, idx) ==
    IF idx >= Len(allowed_contexts)
    THEN [panicked |-> TRUE, ty |-> ty]
    ELSE LET ty2 == BitOr(ty, CommandContext_into_cmd_ty(allowed_contexts[idx + 1])) IN
         IF idx + 1 = Len(allowed_contexts)
         THEN [panicked |-> FALSE, ty |-> ty2]
         ELSE new_loop(ty2, allowed_contexts, idx + 1)

\* mutant: only the first allowed context is or-ed in
Command_new_first_only(ty, allowed_contexts) ==
    new_loop(ArgType_into_cmd_ty(ty),
             IF allowed_contexts = <<>> THEN <<>> ELSE <<allowed_contexts[1]>>, 0)

\* Command::new(name, ty, allowed_contexts, set): the type_ bitmask it computes
Command_new(ty, allowed_contexts) ==
    new_loop(ArgType_into_cmd_ty(ty), allowed_contexts, 0)

\* the lists of allowed contexts a module author writes
ContextLists == UNION { [1..n -> CommandContext] : n \in 0..MaxContexts }

CommandInit ==
    cmd = [op |-> "none", arg |-> "None", allowed_contexts |-> <<>>,
           panicked |-> FALSE, ty |-> {}]

\* a module builds its directive descriptor: one per behaviour
NewCommand(ty, allowed_contexts) ==
    /\ cmd.op = "none"
    /\ LET r == Command_new(ty, allowed_contexts) IN
       cmd' = [op |-> "new", arg |-> ty, allowed_contexts |-> allowed_contexts,
               panicked |-> r.panicked, ty |-> r.ty]
    /\ UNCHANGED <<mergeVars, ngxConfVars, lifeVars>>
    /\ UNCHANGED <<poolVars, arrayVars, dispVars, phaseVars>>

NextCommand ==
    cmd.op = "none" /\
        \E ty \in ArgType, allowed_contexts \in ContextLists :
            NewCommand(ty, allowed_contexts)

\* ------------------------------------------------------------------ Merge
\* the value of type ()
Unit == [zst |-> TRUE]

\* "s3.amazonaws.com"
S3_ENDPOINT == <<"s", "3", ".", "a", "m", "a", "z", "o", "n", "a", "w", "s", ".",
                 "c", "o", "m">>

\* #[derive(Default)] struct ModuleConfig of examples/curl.rs
CurlDefault == [enable |-> FALSE]

\* #[derive(Default)] struct ModuleConfig of examples/awssig.rs
AwsDefault == [enable |-> FALSE, access_key |-> <<>>, secret_key |-> <<>>,
               s3_bucket |-> <<>>, s3_endpoint |-> <<>>]

\* mutant: the parent's flag is not looked at
merge_enable_ignored(own, parent) == own

\* if prev.enable { self.enable = true; }
merge_enable(own, parent) == IF parent THEN TRUE ELSE own

\* impl Merge for ModuleConfig of examples/curl.rs
curl_merge(self, prev) ==
    [ok |-> TRUE, err |-> "none",
     self |-> [self EXCEPT !.enable = merge_enable(self.enable, prev.enable)]]

\* impl Merge for ()
\* mutant: the merge of () reports an error
unit_merge_fails(self, prev) == [ok |-> FALSE, err |-> "NoValue", self |-> self]

unit_merge(self, prev) == [ok |-> TRUE, err |-> "none", self |-> self]

\* mutant: a non-empty parent string always wins
inherit_parent_wins(own, parent) == IF parent # <<>> THEN parent ELSE own

\* if self.f.is_empty() { self.f = String::from(if !prev.f.is_empty() { &prev.f } else { "" }) }
inherit(own, parent) ==
    IF own = <<>> THEN (IF parent # <<>> THEN parent ELSE <<>>) ELSE own

\* mutant: the endpoint is recomputed from the parent on every merge
inherit_endpoint_always(own, parent) ==
    IF parent # <<>> THEN parent ELSE S3_ENDPOINT

\* if self.s3_endpoint.is_empty() { ... prev.s3_endpoint or "s3.amazonaws.com" }
inherit_endpoint(own, parent) ==
    IF own = <<>> THEN (IF parent # <<>> THEN parent ELSE S3_ENDPOINT) ELSE own

\* mutant: a missing required field is never reported
no_value_never(enable, field) == FALSE

\* if self.enable && self.f.is_empty() { return Err(MergeConfigError::NoValue) }
no_value(enable, field) == enable /\ field = <<>>

\* impl Merge for ModuleConfig of examples/awssig.rs: the fields are merged in
\* declaration order and the first missing required field returns early
awssig_merge(self, prev) ==
    LET s0 == [self EXCEPT !.enable = merge_enable(self.enable, prev.enable)]
        s1 == [s0 EXCEPT !.access_key = inherit(s0.access_key, prev.access_key)]
        s2 == [s1 EXCEPT !.secret_key = inherit(s1.secret_key, prev.secret_key)]
        s3 == [s2 EXCEPT !.s3_bucket = inherit(s2.s3_bucket, prev.s3_bucket)]
        s4 == [s3 EXCEPT !.s3_endpoint =
                   inherit_endpoint(s3.s3_endpoint, prev.s3_endpoint)]
    IN
    IF no_value(s1.enable, s1.access_key) THEN [ok |-> FALSE, err |-> "NoValue", self |-> s1]
    ELSE IF no_value(s2.enable, s2.secret_key) THEN [ok |-> FALSE, err |-> "NoValue", self |-> s2]
    ELSE IF no_value(s3.enable, s3.s3_bucket) THEN [ok |-> FALSE, err |-> "NoValue", self |-> s3]
    ELSE [ok |-> TRUE, err |-> "none", self |-> s4]

\* Merge::merge of the configuration type a module declares
merge(impl, self, prev) ==
    CASE impl = "curl" -> curl_merge(self, prev)
      [] impl = "awssig" -> awssig_merge(self, prev)
      [] impl = "unit" -> unit_merge(self, prev)

\* Default::default() of the configuration type a module declares
Default(impl) ==
    CASE impl = "curl" -> CurlDefault
      [] impl = "awssig" -> AwsDefault
      [] impl = "unit" -> Unit

\* the string values a directive stored in a field: unset, or one of
\* MaxStrings distinct strings
StrValues == {<<>>} \cup { <<"v", Digits[i + 1]>> : i \in 1..MaxStrings }

\* the values of the two ModuleConfig types
CurlConfigs == [enable : BOOLEAN]
AwsConfigs == [enable : BOOLEAN, access_key : StrValues, secret_key : StrValues,
               s3_bucket : StrValues, s3_endpoint : StrValues \cup {S3_ENDPOINT}]

\* the string fields of the awssig ModuleConfig that merge requires when enabled
RequiredFields == {"access_key", "secret_key", "s3_bucket"}
StringFields == RequiredFields \cup {"s3_endpoint"}

MergeInit ==
    mergeRet = [op |-> "none", impl |-> "unit", self |-> Unit, prev |-> Unit,
                ok |-> TRUE, after |-> Unit, ok2 |-> TRUE, after2 |-> Unit]

\* one call self.merge(&prev) per behaviour, and then the same merge once more
\* on the result
Merge(impl, self, prev) ==
    /\ mergeRet.op = "none"
    /\ LET r == merge(impl, self, prev)
           r2 == merge(impl, r.self, prev)
       IN
       mergeRet' = [op |-> "merge", impl |-> impl, self |-> self, prev |-> prev,
                    ok |-> r.ok, after |-> r.self, ok2 |-> r2.ok, after2 |-> r2.self]
    /\ UNCHANGED <<cmdVars, ngxConfVars, lifeVars>>
    /\ UNCHANGED <<poolVars, arrayVars, dispVars, phaseVars>>

NextMerge ==
    \/ mergeRet.op = "none" /\
          \E self \in CurlConfigs, prev \in CurlConfigs : Merge("curl", self, prev)
    \/ mergeRet.op = "none" /\
          \E self \in AwsConfigs, prev \in AwsConfigs : Merge("awssig", self, prev)
    \/ Merge("unit", Unit, Unit)

\* ---------------------------------------------------------------- NgxConf
\* the alignment of ngx_conf_t and of ngx_module_t: that of a pointer
ALIGN == 8

\* <*const T>::is_aligned: the address is a multiple of the alignment of T
is_aligned(p) == p % ALIGN = 0

\* mutant: the module pointer is not looked at
NgxConf_new_inner_only(inner, module) ==
    IF inner = NULL \/ ~is_aligned(inner)
    THEN [some |-> FALSE, inner |-> NULL, module |-> NULL]
    ELSE [some |-> TRUE, inner |-> inner, module |-> module]

\* NgxConf::new(inner, module)
NgxConf_new(inner, module) ==
    IF inner = NULL \/ ~is_aligned(inner)
    THEN [some |-> FALSE, inner |-> NULL, module |-> NULL]
    ELSE IF module = NULL \/ ~is_aligned(module)
    THEN [some |-> FALSE, inner |-> NULL, module |-> NULL]
    ELSE [some |-> TRUE, inner |-> inner, module |-> module]

\* the addresses a raw pointer handed to NgxConf::new can hold
Pointers == 0..MaxAddr

NgxConfInit ==
    ngxConf = [op |-> "none", inner |-> NULL, module |-> NULL, some |-> FALSE]

\* a glue callback asks for the accessor
NgxConfNew(inner, module) ==
    LET r == NgxConf_new(inner, module) IN
    /\ ngxConf' = [op |-> "new", inner |-> inner, module |-> module, some |-> r.some]
    /\ UNCHANGED <<cmdVars, mergeVars, lifeVars>>
    /\ UNCHANGED <<poolVars, arrayVars, dispVars, phaseVars>>

NextNgxConf ==
    \E inner \in Pointers, module \in Pointers : NgxConfNew(inner, module)

\* -------------------------------------------------------------- lifecycle
\* Status::NGX_OK and Status::NGX_ERROR as ngx_int_t
NGX_OK == 0
NGX_ERROR == -1

\* the trait a module implements: RawHttpModule itself ("raw", examples/curl.rs),
\* HttpModule ("typed", a module with the flag of curl.rs declared for every
\* tier) or SafeHttpModule ("safe", examples/awssig.rs); each comes with the
\* LocConf type the module declares
Families == {"raw", "typed", "safe"}
LocConfImpl(family) == IF family = "safe" THEN "awssig" ELSE "curl"

\* the three tiers holding a LocConf: the http block, a server block in it, a
\* location block in that server
Global == 1
Group == 2
Route == 3
Tiers == {Global, Group, Route}

\* the context pointers the host may hand to a callback: null, aligned, misaligned
CfPointers == {NULL, ALIGN, ALIGN + 1}
\* the configuration-value pointers the host may hand to a callback
ConfPointers == {NULL, VALID}

\* mutant: the pointer is used without the null test
non_null_unchecked(p) == TRUE

\* non_null_mut_or!(value, error): NonNull::new(value) is Some
non_null(p) == p # NULL

\* <*mut T>::as_mut() is Some
as_mut(p) == p # NULL

\* the first lines of every glue callback: does it get a usable context?
\* RawHttpModule's own defaults test nothing.
accessor(family, cf, module) ==
    CASE family = "raw" -> TRUE
      [] family = "typed" -> non_null(cf)
      [] family = "safe" -> NgxConf_new(cf, module).some

\* the reference a glue callback makes of a configuration-value pointer
conf_ref(family, p) ==
    CASE family = "raw" -> TRUE
      [] family = "typed" -> non_null(p)
      [] family = "safe" -> as_mut(p)

\* impl From<Error> for Status
Status_from_Error(e) ==
    CASE e = "Error" -> NGX_ERROR
      [] e = "Again" -> -2
      [] e = "Busy" -> -3
      [] e = "Declined" -> -5
      [] e = "Abort" -> -6

\* what the typed callback of a module may answer: "default" is the trait's
\* own body, "example" the body the example module of the family supplies,
\* anything else the Result an overriding module returns
TypedResults(family, op) ==
    CASE family = "raw" -> IF op = "postconfiguration" THEN {"example", "default"}
                           ELSE {"default"}
      [] family = "typed" -> {"default", "Ok", "Err"}
      [] family = "safe" ->
             IF op = "init_main_conf" THEN {"default", "Ok", "Err"}
             ELSE IF op = "postconfiguration"
             THEN {"example", "default", "Ok", "Error", "Again", "Busy", "Declined", "Abort"}
             ELSE {"default", "Ok", "Error", "Again", "Busy", "Declined", "Abort"}

\* the ngx_int_t a glue callback returns for the Result of the typed callback:
\* HttpModule's glue tests is_ok(), SafeHttpModule's converts the Error
glue_status(family, result) ==
    IF result = "Ok" THEN NGX_OK
    ELSE IF family = "safe" THEN Status_from_Error(result)
    ELSE NGX_ERROR

\* preconfiguration(cf): the default of every trait succeeds
preconfiguration(family, cf, module, typed) ==
    IF ~accessor(family, cf, module)
    THEN [ret |-> NGX_ERROR, invoked |-> FALSE, result |-> "none"]
    ELSE LET result == IF typed = "default" THEN "Ok" ELSE typed IN
         [ret |-> glue_status(family, result), invoked |-> TRUE, result |-> result]

\* postconfiguration(cf): curl.rs and awssig.rs register a phase handler,
\* okPush is the host's answer to the push; the default of every trait succeeds
postconfiguration(family, cf, module, typed, okPush) ==
    IF ~accessor(family, cf, module)
    THEN [ret |-> NGX_ERROR, invoked |-> FALSE, result |-> "none"]
    ELSE LET result == CASE typed = "example" -> IF okPush THEN "Ok" ELSE "Error"
                         [] typed = "default" -> "Ok"
                         [] OTHER -> typed
         IN [ret |-> glue_status(family, result), invoked |-> TRUE, result |-> result]

\* Pool::from_ngx_pool(pool): assert!(!pool.is_null())
from_ngx_pool(pool) == [panicked |-> pool = NULL, pool |-> pool]

\* create_main_conf / create_srv_conf / create_loc_conf (cf): the default of
\* every trait allocates Default::default(), the value v, in the arena st that
\* cf.pool names
create_conf(family, cf, module, pool, st, v, zst, okAlloc, okCln) ==
    LET a == allocate(st, v, zst, okAlloc, okCln) IN
    IF ~accessor(family, cf, module)
    THEN [ret |-> NULL, invoked |-> FALSE, result |-> "none", some |-> FALSE,
          calls |-> <<>>, arena |-> st]
    ELSE IF from_ngx_pool(pool).panicked
    THEN [ret |-> PANICKED, invoked |-> TRUE, result |-> "panic", some |-> FALSE,
          calls |-> <<>>, arena |-> st]
    ELSE [ret |-> a.ptr, invoked |-> TRUE,
          result |-> IF a.some THEN "Some" ELSE "None", some |-> a.some,
          calls |-> a.calls,
          arena |-> [mem |-> a.mem, brk |-> a.brk, cleanup |-> a.cleanup, drops |-> a.drops]]

\* mutant: the glue reports success whatever the typed callback returned
conf_result_always_ok(ok) == NGX_CONF_OK

\* match ... { Ok(_) => NGX_CONF_OK, Err(_) => NGX_CONF_ERROR } of the glue
conf_result(ok) == IF ok THEN NGX_CONF_OK ELSE NGX_CONF_ERROR

\* init_main_conf(cf, conf): the default of every trait succeeds
init_main_conf(family, cf, module, confPtr, typed) ==
    IF ~accessor(family, cf, module) \/ ~conf_ref(family, confPtr)
    THEN [ret |-> NGX_CONF_ERROR, invoked |-> FALSE, result |-> "none"]
    ELSE LET result == IF typed = "default" THEN "Ok" ELSE typed IN
         [ret |-> conf_result(result = "Ok"), invoked |-> TRUE, result |-> result]

\* RawHttpModule::merge_srv_conf, HttpModule::merge_srv_conf and
\* SafeHttpModule::merge_srv_conf: conf.merge(prev)
typed_merge_srv_conf(family, impl, prev, conf) ==
    LET r == merge(impl, conf, prev) IN
    [ok |-> r.ok, err |-> r.err, prev |-> prev, conf |-> r.self]

\* RawHttpModule::merge_loc_conf and HttpModule::merge_loc_conf: conf.merge(prev)
HttpModule_merge_loc_conf(impl, prev, conf) ==
    LET r == merge(impl, conf, prev) IN
    [ok |-> r.ok, err |-> r.err, prev |-> prev, conf |-> r.self]

\* SafeHttpModule::merge_loc_conf: prev.merge(conf)
SafeHttpModule_merge_loc_conf(impl, prev, conf) ==
    LET r == merge(impl, prev, conf) IN
    [ok |-> r.ok, err |-> r.err, prev |-> r.self, conf |-> conf]

typed_merge_loc_conf(family, impl, prev, conf) ==
    IF family = "safe"
    THEN SafeHttpModule_merge_loc_conf(impl, prev, conf)
    ELSE HttpModule_merge_loc_conf(impl, prev, conf)

\* merge_srv_conf(cf, prev, conf) as the host calls it
merge_srv_conf(family, impl, cf, module, prevPtr, confPtr, prev, conf) ==
    IF ~accessor(family, cf, module) \/ ~conf_ref(family, prevPtr)
       \/ ~conf_ref(family, confPtr)
    THEN [ret |-> NGX_CONF_ERROR, invoked |-> FALSE, err |-> "none", prev |-> prev,
          conf |-> conf, result |-> "none"]
    ELSE LET r == typed_merge_srv_conf(family, impl, prev, conf) IN
         [ret |-> conf_result(r.ok), invoked |-> TRUE, err |-> r.err, prev |-> r.prev,
          conf |-> r.conf, result |-> IF r.ok THEN "Ok" ELSE r.err]

\* merge_loc_conf(cf, prev, conf) as the host calls it
merge_loc_conf(family, impl, cf, module, prevPtr, confPtr, prev, conf) ==
    IF ~accessor(family, cf, module) \/ ~conf_ref(family, prevPtr)
       \/ ~conf_ref(family, confPtr)
    THEN [ret |-> NGX_CONF_ERROR, invoked |-> FALSE, err |-> "none", prev |-> prev,
          conf |-> conf, result |-> "none"]
    ELSE LET r == typed_merge_loc_conf(family, impl, prev, conf) IN
         [ret |-> conf_result(r.ok), invoked |-> TRUE, err |-> r.err, prev |-> r.prev,
          conf |-> r.conf, result |-> IF r.ok THEN "Ok" ELSE r.err]

\* ngx_http_awssigv4_commands_set_access_key / _secret_key / _s3_endpoint
set_string(conf, field, argv) ==
    [ret |-> NULL, conf |-> [conf EXCEPT ![field] = argv[2]]]

\* ngx_http_awssigv4_commands_set_s3_bucket: a one-byte bucket is refused
\* after it was stored
set_s3_bucket(conf, argv) ==
    LET c == [conf EXCEPT !.s3_bucket = argv[2]] IN
    [ret |-> IF Len(c.s3_bucket) = 1 THEN NGX_CONF_ERROR ELSE NULL, conf |-> c]

\* the directives of a module and the handler each one runs on the tier's value
Directives(impl) ==
    IF impl = "curl" THEN {"curl"}
    ELSE {"awssigv4", "awssigv4_access_key", "awssigv4_secret_key",
          "awssigv4_s3_bucket"}

\* the scope bit the host parser holds while it reads the block of tier t: a
\* directive is dispatched only where its type_ has that bit
TierScope(t) ==
    CASE t = Global -> NGX_HTTP_MAIN_CONF
      [] t = Group -> NGX_HTTP_SRV_CONF
      [] t = Route -> NGX_HTTP_LOC_CONF

\* ngx_command_t.type_ of the directives of a module: curl.rs builds it with
\* Command::new for Loc, awssig.rs writes the bits for Srv and Loc; an
\* HttpModule declares its flag for the three tiers
CommandType(family) ==
    CASE family = "raw" -> Command_new("Flag", <<"Loc">>).ty
      [] family = "typed" -> Command_new("Flag", <<"Http", "Srv", "Loc">>).ty
      [] family = "safe" ->
             BitOr(BitOr(NGX_HTTP_LOC_CONF, NGX_HTTP_SRV_CONF), NGX_CONF_TAKE1)

\* the argument a directive is written with at tier t
TierValue(t) == <<"k", Digits[t + 1]>>
DirectiveTokens(name, t) ==
    CASE name \in {"curl", "awssigv4"} -> { <<"o", "n">>, <<"o", "f", "f">> }
      [] name = "awssigv4_s3_bucket" -> { TierValue(t), <<"b">> }
      [] OTHER -> { TierValue(t) }

dispatch(name, conf, argv) ==
    CASE name = "curl" ->
             LET r == set_curl(conf, argv) IN
             [ret |-> conf_status(r.ok), conf |-> r.conf]
      [] name = "awssigv4" ->
             LET r == set_enable(VALID, VALID, argv, conf.enable) IN
             [ret |-> r.ret, conf |-> [conf EXCEPT !.enable = r.enable]]
      [] name = "awssigv4_access_key" -> set_string(conf, "access_key", argv)
      [] name = "awssigv4_secret_key" -> set_string(conf, "secret_key", argv)
      [] name = "awssigv4_s3_bucket" -> set_s3_bucket(conf, argv)

\* the pointers the host hands to a module of this family: the defaults of
\* RawHttpModule dereference what they get and HttpModule's glue tests for null
\* only, so these are given what the host really passes
CfInputs(family) ==
    CASE family = "raw" -> {ALIGN}
      [] family = "typed" -> {NULL, ALIGN}
      [] family = "safe" -> CfPointers
ConfInputs(family) == IF family = "raw" THEN {VALID} ELSE ConfPointers

\* the arena pointers a context may carry
PoolPointers == {NULL, VALID}

LifeInit ==
    /\ lcModule = [family |-> "none", impl |-> "unit", ptr |-> NULL]
    /\ lcPc = "load"
    /\ lcTiers = [t \in Tiers |-> Unit]
    /\ lcParsed = [t \in Tiers |-> Unit]
    /\ lcSaid = {}
    /\ lcCount = 0
    /\ lcMerges = <<>>
    /\ lcRet = [op |-> "none", cf |-> NULL, prevPtr |-> NULL, confPtr |-> NULL,
                ret |-> NULL, invoked |-> FALSE, parent |-> 0, child |-> 0,
                before |-> [t \in Tiers |-> Unit],
                typed |-> "none", result |-> "none", pool |-> NULL, zst |-> FALSE,
                value |-> 0, arena |-> PoolState]

\* what a callback that takes only cf leaves in lcRet
CallRet(op, cf, confPtr, typed, r) ==
    [op |-> op, cf |-> cf, prevPtr |-> NULL, confPtr |-> confPtr, ret |-> r.ret,
     invoked |-> r.invoked, parent |-> 0, child |-> 0, before |-> lcTiers,
     typed |-> typed, result |-> r.result, pool |-> VALID, zst |-> FALSE,
     value |-> 0, arena |-> PoolState]

\* what a Create* callback leaves in lcRet
CreateRet(op, cf, pool, zst, v, r) ==
    [op |-> op, cf |-> cf, prevPtr |-> NULL, confPtr |-> NULL, ret |-> r.ret,
     invoked |-> r.invoked, parent |-> 0, child |-> 0, before |-> lcTiers,
     typed |-> "default", result |-> r.result, pool |-> pool, zst |-> zst,
     value |-> v, arena |-> PoolState]

\* what a Create* callback does to the arena: the Pool::allocate call in it
CreateArena(v, zst, r) ==
    /\ nvals' = v
    /\ mem' = r.arena.mem
    /\ brk' = r.arena.brk
    /\ cleanup' = r.arena.cleanup
    /\ drops' = r.arena.drops
    /\ registered' = IF r.some /\ r.ret # DANGLING THEN Append(registered, v)
                     ELSE registered
    /\ poolRet' = IF r.result \in {"Some", "None"}
                  THEN [op |-> "allocate", value |-> v, zst |-> zst, some |-> r.some,
                        ptr |-> r.ret, calls |-> r.calls,
                        before |-> [mem |-> mem, brk |-> brk, cleanup |-> cleanup]]
                  ELSE poolRet
    /\ UNCHANGED <<dropOrder, destroyed>>

\* the host loads a module; SafeHttpModule::module() is the address of the
\* module's static, or null as in the documentation of command!
Load(family, ptr) ==
    /\ lcPc = "load"
    /\ family = "safe" \/ ptr = ALIGN
    /\ lcModule' = [family |-> family, impl |-> LocConfImpl(family), ptr |-> ptr]
    /\ lcPc' = "preconfiguration"
    /\ UNCHANGED <<lcTiers, lcParsed, lcSaid, lcCount, lcMerges, lcRet>>
    /\ UNCHANGED <<cmdVars, mergeVars, ngxConfVars>>
    /\ UNCHANGED <<poolVars, arrayVars, dispVars, phaseVars>>

Preconfiguration(cf, typed) ==
    /\ lcPc = "preconfiguration"
    /\ cf \in CfInputs(lcModule.family)
    /\ typed \in TypedResults(lcModule.family, "preconfiguration")
    /\ LET r == preconfiguration(lcModule.family, cf, lcModule.ptr, typed) IN
       /\ lcRet' = CallRet("preconfiguration", cf, NULL, typed, r)
       /\ lcPc' = IF r.ret = NGX_OK THEN "create_main_conf" ELSE "failed"
    /\ UNCHANGED <<lcModule, lcTiers, lcParsed, lcSaid, lcCount, lcMerges>>
    /\ UNCHANGED <<cmdVars, mergeVars, ngxConfVars>>
    /\ UNCHANGED <<poolVars, arrayVars, dispVars, phaseVars>>

\* MainConf and SrvConf are () in both example modules: zero-sized
CreateMainConf(cf, pool) ==
    /\ lcPc = "create_main_conf"
    /\ cf \in CfInputs(lcModule.family)
    /\ nvals < MaxValues
    /\ LET v == nvals + 1
           r == create_conf(lcModule.family, cf, lcModule.ptr, pool, PoolState, v,
                            TRUE, TRUE, TRUE)
       IN
       /\ lcRet' = CreateRet("create_main_conf", cf, pool, TRUE, v, r)
       /\ lcPc' = IF r.result = "Some" THEN "create_srv_conf" ELSE "failed"
       /\ CreateArena(v, TRUE, r)
    /\ UNCHANGED <<lcModule, lcTiers, lcParsed, lcSaid, lcCount, lcMerges>>
    /\ UNCHANGED <<cmdVars, mergeVars, ngxConfVars>>
    /\ UNCHANGED <<arrayVars, dispVars, phaseVars>>

CreateSrvConf(cf, pool) ==
    /\ lcPc = "create_srv_conf"
    /\ cf \in CfInputs(lcModule.family)
    /\ nvals < MaxValues
    /\ LET v == nvals + 1
           r == create_conf(lcModule.family, cf, lcModule.ptr, pool, PoolState, v,
                            TRUE, TRUE, TRUE)
       IN
       /\ lcRet' = CreateRet("create_srv_conf", cf, pool, TRUE, v, r)
       /\ lcPc' = IF r.result = "Some" THEN "create_loc_conf" ELSE "failed"
       /\ CreateArena(v, TRUE, r)
    /\ UNCHANGED <<lcModule, lcTiers, lcParsed, lcSaid, lcCount, lcMerges>>
    /\ UNCHANGED <<cmdVars, mergeVars, ngxConfVars>>
    /\ UNCHANGED <<arrayVars, dispVars, phaseVars>>

\* the LocConf of the three tiers: each is created with the default value
CreateLocConf(cf, pool, okAlloc, okCln) ==
    /\ lcPc = "create_loc_conf"
    /\ cf \in CfInputs(lcModule.family)
    /\ nvals < MaxValues
    /\ LET v == nvals + 1
           r == create_conf(lcModule.family, cf, lcModule.ptr, pool, PoolState, v,
                            FALSE, okAlloc, okCln)
       IN
       /\ lcRet' = CreateRet("create_loc_conf", cf, pool, FALSE, v, r)
       /\ lcPc' = IF r.result = "Some" THEN "parse" ELSE "failed"
       /\ CreateArena(v, FALSE, r)
       /\ lcTiers' = IF r.result = "Some"
                     THEN [t \in Tiers |-> Default(lcModule.impl)]
                     ELSE lcTiers
    /\ UNCHANGED <<lcModule, lcParsed, lcSaid, lcCount, lcMerges>>
    /\ UNCHANGED <<cmdVars, mergeVars, ngxConfVars>>
    /\ UNCHANGED <<arrayVars, dispVars, phaseVars>>

\* the parser meets `name token;` in the block of tier t
Directive(t, name, token) ==
    /\ lcPc = "parse"
    /\ lcCount < MaxDirectives
    /\ TierScope(t) \subseteq CommandType(lcModule.family)
    /\ name \in Directives(lcModule.impl)
    /\ token \in DirectiveTokens(name, t)
    /\ LET r == dispatch(name, lcTiers[t], <<name, token>>) IN
       /\ lcTiers' = [lcTiers EXCEPT ![t] = r.conf]
       /\ lcPc' = IF r.ret = NGX_CONF_OK THEN "parse" ELSE "failed"
       /\ lcRet' = [op |-> "directive", cf |-> ALIGN, prevPtr |-> NULL,
                    confPtr |-> VALID, ret |-> r.ret, invoked |-> TRUE,
                    parent |-> 0, child |-> t, before |-> lcTiers,
                    typed |-> "example",
                    result |-> IF r.ret = NGX_CONF_OK THEN "Ok" ELSE "Err",
                    pool |-> VALID, zst |-> FALSE, value |-> 0, arena |-> PoolState]
    /\ lcSaid' = lcSaid \cup {<<t, name, token>>}
    /\ lcCount' = lcCount + 1
    /\ UNCHANGED <<lcModule, lcParsed, lcMerges>>
    /\ UNCHANGED <<cmdVars, mergeVars, ngxConfVars>>
    /\ UNCHANGED <<poolVars, arrayVars, dispVars, phaseVars>>

\* the http block is closed: the host initialises the main configuration
InitMainConf(cf, confPtr, typed) ==
    /\ lcPc = "parse"
    /\ cf \in CfInputs(lcModule.family)
    /\ confPtr \in ConfInputs(lcModule.family)
    /\ typed \in TypedResults(lcModule.family, "init_main_conf")
    /\ LET r == init_main_conf(lcModule.family, cf, lcModule.ptr, confPtr, typed) IN
       /\ lcRet' = CallRet("init_main_conf", cf, confPtr, typed, r)
       /\ lcPc' = IF r.ret = NGX_CONF_OK THEN "merge_srv_conf" ELSE "failed"
    /\ lcParsed' = lcTiers
    /\ UNCHANGED <<lcModule, lcTiers, lcSaid, lcCount, lcMerges>>
    /\ UNCHANGED <<cmdVars, mergeVars, ngxConfVars>>
    /\ UNCHANGED <<poolVars, arrayVars, dispVars, phaseVars>>

\* the SrvConf of the server block is merged with the http block's: both are ()
MergeSrvConf(cf, prevPtr, confPtr) ==
    /\ lcPc = "merge_srv_conf"
    /\ cf \in CfInputs(lcModule.family)
    /\ prevPtr \in ConfInputs(lcModule.family)
    /\ confPtr \in ConfInputs(lcModule.family)
    /\ LET r == merge_srv_conf(lcModule.family, "unit", cf, lcModule.ptr, prevPtr,
                               confPtr, Unit, Unit)
       IN
       /\ lcRet' = [op |-> "merge_srv_conf", cf |-> cf, prevPtr |-> prevPtr,
                    confPtr |-> confPtr, ret |-> r.ret, invoked |-> r.invoked,
                    parent |-> 0, child |-> 0, before |-> lcTiers,
                    typed |-> "default",
                    result |-> r.result,
                    pool |-> VALID, zst |-> FALSE, value |-> 0, arena |-> PoolState]
       /\ lcPc' = IF r.ret = NGX_CONF_OK THEN "merge_loc_conf" ELSE "failed"
    /\ UNCHANGED <<lcModule, lcTiers, lcParsed, lcSaid, lcCount, lcMerges>>
    /\ UNCHANGED <<cmdVars, mergeVars, ngxConfVars>>
    /\ UNCHANGED <<poolVars, arrayVars, dispVars, phaseVars>>

\* the LocConf of the next tier is merged with its parent's: first Group with
\* Global, then Route with Group
MergeLocConf(cf, prevPtr, confPtr) ==
    /\ lcPc = "merge_loc_conf"
    /\ cf \in CfInputs(lcModule.family)
    /\ prevPtr \in ConfInputs(lcModule.family)
    /\ confPtr \in ConfInputs(lcModule.family)
    /\ LET parent == Len(lcMerges) + 1
           child == parent + 1
           r == merge_loc_conf(lcModule.family, lcModule.impl, cf, lcModule.ptr,
                               prevPtr, confPtr, lcTiers[parent], lcTiers[child])
       IN
       /\ lcTiers' = [lcTiers EXCEPT ![parent] = r.prev, ![child] = r.conf]
       /\ lcRet' = [op |-> "merge_loc_conf", cf |-> cf, prevPtr |-> prevPtr,
                    confPtr |-> confPtr, ret |-> r.ret, invoked |-> r.invoked,
                    parent |-> parent, child |-> child, before |-> lcTiers,
                    typed |-> "default",
                    result |-> r.result,
                    pool |-> VALID, zst |-> FALSE, value |-> 0, arena |-> PoolState]
       /\ lcMerges' = Append(lcMerges, [ret |-> r.ret, invoked |-> r.invoked,
                                            err |-> r.err])
       /\ lcPc' = IF r.ret # NGX_CONF_OK THEN "failed"
                  ELSE IF child = Route THEN "postconfiguration"
                  ELSE "merge_loc_conf"
    /\ UNCHANGED <<lcModule, lcParsed, lcSaid, lcCount>>
    /\ UNCHANGED <<cmdVars, mergeVars, ngxConfVars>>
    /\ UNCHANGED <<poolVars, arrayVars, dispVars, phaseVars>>

Postconfiguration(cf, typed, okPush) ==
    /\ lcPc = "postconfiguration"
    /\ cf \in CfInputs(lcModule.family)
    /\ typed \in TypedResults(lcModule.family, "postconfiguration")
    /\ LET r == postconfiguration(lcModule.family, cf, lcModule.ptr, typed, okPush) IN
       /\ lcRet' = CallRet("postconfiguration", cf, NULL, typed, r)
       /\ lcPc' = IF r.ret = NGX_OK THEN "done" ELSE "failed"
    /\ UNCHANGED <<lcModule, lcTiers, lcParsed, lcSaid, lcCount, lcMerges>>
    /\ UNCHANGED <<cmdVars, mergeVars, ngxConfVars>>
    /\ UNCHANGED <<poolVars, arrayVars, dispVars, phaseVars>>

AllTyped ==
    UNION {TypedResults(f, op) : f \in Families,
                                 op \in {"preconfiguration", "init_main_conf", "postconfiguration"}}

NextLifecycle ==
    \/ \E family \in Families, ptr \in {NULL, ALIGN} : Load(family, ptr)
    \/ \E cf \in CfPointers, typed \in AllTyped : Preconfiguration(cf, typed)
    \/ \E cf \in CfPointers, pool \in PoolPointers : CreateMainConf(cf, pool)
    \/ \E cf \in CfPointers, pool \in PoolPointers : CreateSrvConf(cf, pool)
    \/ \E cf \in CfPointers, pool \in PoolPointers, okAlloc \in BOOLEAN, okCln \in BOOLEAN :
          CreateLocConf(cf, pool, okAlloc, okCln)
    \/ \E t \in Tiers, name \in Directives(lcModule.impl) :
          \E token \in DirectiveTokens(name, t) : Directive(t, name, token)
    \/ \E cf \in CfPointers, confPtr \in ConfPointers, typed \in AllTyped :
          InitMainConf(cf, confPtr, typed)
    \/ \E cf \in CfPointers, prevPtr \in ConfPointers, confPtr \in ConfPointers :
          MergeSrvConf(cf, prevPtr, confPtr)
    \/ \E cf \in CfPointers, prevPtr \in ConfPointers, confPtr \in ConfPointers :
          MergeLocConf(cf, prevPtr, confPtr)
    \/ \E cf \in CfPointers, typed \in AllTyped, okPush \in BOOLEAN :
          Postconfiguration(cf, typed, okPush)

\* ---------------------------------------------------------------------------
\* Phase handler tables: NgxConf::main_conf, NgxMainConf::add_phase_handler
\* (src/http/module_safe.rs), ngx_http_conf_get_module_main_conf
\* (src/http/conf.rs) and the postconfiguration callbacks of the examples.
\* ---------------------------------------------------------------------------

\* enum Phase, by `phase as usize`
PostRead == 0
ServerRewrite == 1
FindConfig == 2
Rewrite == 3
PostRewrite == 4
PreAccess == 5
Access == 6
PostAccess == 7
PreContent == 8
Content == 9
Log == 10
Phases == PostRead..Log

\* the request handlers the examples register (function pointers)
curl_access_handler == 1
awssigv4_header_handler == 2
Handlers == {curl_access_handler, awssigv4_header_handler}

\* the host core module and the registering module, with their index into
\* the host's table of Global configuration slots
ngx_http_core_module == [name |-> "ngx_http_core_module", ctx_index |-> 0]
ngx_http_awssigv4_module == [name |-> "ngx_http_awssigv4_module", ctx_index |-> 1]
Modules == {ngx_http_core_module, ngx_http_awssigv4_module}

\* the memory behind one Global configuration slot, read as an
\* ngx_http_core_main_conf_t: one handlers array per phase
EmptyMainConf ==
    [phases |-> [p \in Phases |-> [arr |-> InitArr, stores |-> << <<UNINIT>> >>]]]

\* the handlers of phase p in configuration conf, as the host traverses them
PhaseList(conf, p) == SliceItems(conf.phases[p].stores, deref(conf.phases[p].arr))

\* ngx_http_conf_get_module_main_conf(cf, module): the slot index used is the
\* ctx_index of the module that is passed in
ngx_http_conf_get_module_main_conf(table, module) == table[module.ctx_index]

\* NgxConf::main_conf() of an accessor built for `module`: the slot of that
\* module is dereferenced as ngx_http_core_main_conf_t. For any module but the
\* core module the slot holds a value of another type; ub is what the access
\* then does: "alias" (the bytes are used as a core configuration) or "fault".
NgxConf_main_conf(module, ub) ==
    [slot  |-> module.ctx_index,
     fault |-> module # ngx_http_core_module /\ ub = "fault"]

\* mutant: the handler goes to the list of the following phase
add_phase_handler_next_phase(conf, phase, handler, grow) ==
    LET q == IF phase = Log THEN PostRead ELSE phase + 1
        r == push(conf.phases[q].arr, conf.phases[q].stores, handler, grow)
    IN [conf |-> [conf EXCEPT !.phases[q] = [arr |-> r.arr, stores |-> r.stores]],
        ok   |-> r.ok]

\* NgxMainConf::add_phase_handler(phase, handler) on the configuration conf
add_phase_handler(conf, phase, handler, grow) ==
    LET r == push(conf.phases[phase].arr, conf.phases[phase].stores, handler, grow)
    IN [conf |-> [conf EXCEPT !.phases[phase] = [arr |-> r.arr, stores |-> r.stores]],
        ok   |-> r.ok]

\* awssig postconfiguration: cf.main_conf().add_phase_handler(PreContent, ..)
\* .map_err(|_| Error::Error), returned through Status::from
awssig_postconfiguration(table, grow, ub) ==
    LET mc == NgxConf_main_conf(ngx_http_awssigv4_module, ub)
        r == add_phase_handler(table[mc.slot], PreContent, awssigv4_header_handler, grow)
    IN
    IF mc.fault
    THEN \* the process does not survive the access; nothing is returned
         [table |-> table, slot |-> mc.slot, fault |-> TRUE, ok |-> FALSE, ret |-> PANICKED]
    ELSE [table |-> [table EXCEPT ![mc.slot] = r.conf], slot |-> mc.slot, fault |-> FALSE,
          ok |-> r.ok,
          ret |-> IF r.ok THEN NGX_OK ELSE Status_from_Error("Error")]

\* mutant: the handler is stored in the first slot of the Access array
curl_postconfiguration_first_slot(table, grow) ==
    LET core == ngx_http_core_module.ctx_index
        cmcf == ngx_http_conf_get_module_main_conf(table, ngx_http_core_module)
        h == ngx_array_push(cmcf.phases[Access].arr, cmcf.phases[Access].stores, grow)
    IN
    IF h.elt = NullElt
    THEN [table |-> table, slot |-> core, ok |-> FALSE, ret |-> NGX_ERROR]
    ELSE [table |-> [table EXCEPT ![core].phases[Access] =
                         [arr    |-> h.arr,
                          stores |-> [h.stores EXCEPT ![h.arr.elts][1] = curl_access_handler]]],
          slot |-> core, ok |-> TRUE, ret |-> NGX_OK]

\* curl postconfiguration: ngx_array_push on the core module's Access handlers
curl_postconfiguration(table, grow) ==
    LET core == ngx_http_core_module.ctx_index
        cmcf == ngx_http_conf_get_module_main_conf(table, ngx_http_core_module)
        h == ngx_array_push(cmcf.phases[Access].arr, cmcf.phases[Access].stores, grow)
    IN
    IF h.elt = NullElt
    THEN [table |-> table, slot |-> core, ok |-> FALSE, ret |-> NGX_ERROR]
    ELSE [table |-> [table EXCEPT ![core].phases[Access] =
                         [arr    |-> h.arr,
                          stores |-> [h.stores EXCEPT ![h.elt.store][h.elt.idx] = curl_access_handler]]],
          slot |-> core, ok |-> TRUE, ret |-> NGX_OK]

GrowChoices == {"inplace", "realloc", "fail"}

PhaseInit ==
    /\ phMainConf = [i \in {m.ctx_index : m \in Modules} |-> EmptyMainConf]
    /\ phLog = <<>>
    /\ phCalls = 0
    /\ phRet = [op |-> "none"]

\* NgxMainConf::add_phase_handler on the wrapper of the core configuration
AddPhaseHandler(phase, handler, grow) ==
    /\ phCalls < MaxRegistrations
    /\ LET core == ngx_http_core_module.ctx_index
           r == add_phase_handler(phMainConf[core], phase, handler, grow)
       IN
       /\ phMainConf' = [phMainConf EXCEPT ![core] = r.conf]
       /\ phLog' = IF r.ok
                   THEN Append(phLog, [slot |-> core, phase |-> phase, handler |-> handler])
                   ELSE phLog
       /\ phRet' = [op |-> "add_phase_handler", slot |-> core, phase |-> phase,
                    handler |-> handler, ok |-> r.ok, fault |-> FALSE,
                    ret |-> IF r.ok THEN NGX_OK ELSE NGX_ERROR,
                    host |-> ngx_array_push(phMainConf[core].phases[phase].arr,
                                            phMainConf[core].phases[phase].stores, grow).elt,
                    before |-> phMainConf]
    /\ phCalls' = phCalls + 1
    /\ UNCHANGED <<poolVars, arrayVars, dispVars>>
    /\ UNCHANGED <<cmdVars, mergeVars, ngxConfVars, lifeVars>>

\* the postconfiguration callback of the awssig module
AwssigPostconfiguration(grow, ub) ==
    /\ phCalls < MaxRegistrations
    /\ LET r == awssig_postconfiguration(phMainConf, grow, ub) IN
       /\ phMainConf' = r.table
       /\ phLog' = IF r.ok
                   THEN Append(phLog, [slot |-> r.slot, phase |-> PreContent,
                                       handler |-> awssigv4_header_handler])
                   ELSE phLog
       /\ phRet' = [op |-> "awssig_postconfiguration", slot |-> r.slot, phase |-> PreContent,
                    handler |-> awssigv4_header_handler, ok |-> r.ok, fault |-> r.fault,
                    ret |-> r.ret,
                    host |-> ngx_array_push(phMainConf[r.slot].phases[PreContent].arr,
                                            phMainConf[r.slot].phases[PreContent].stores, grow).elt,
                    before |-> phMainConf]
    /\ phCalls' = phCalls + 1
    /\ UNCHANGED <<poolVars, arrayVars, dispVars>>
    /\ UNCHANGED <<cmdVars, mergeVars, ngxConfVars, lifeVars>>

\* the postconfiguration callback of the curl module
CurlPostconfiguration(grow) ==
    /\ phCalls < MaxRegistrations
    /\ LET r == curl_postconfiguration(phMainConf, grow) IN
       /\ phMainConf' = r.table
       /\ phLog' = IF r.ok
                   THEN Append(phLog, [slot |-> r.slot, phase |-> Access,
                                       handler |-> curl_access_handler])
                   ELSE phLog
       /\ phRet' = [op |-> "curl_postconfiguration", slot |-> r.slot, phase |-> Access,
                    handler |-> curl_access_handler, ok |-> r.ok, fault |-> FALSE,
                    ret |-> r.ret,
                    host |-> ngx_array_push(phMainConf[r.slot].phases[Access].arr,
                                            phMainConf[r.slot].phases[Access].stores, grow).elt,
                    before |-> phMainConf]
    /\ phCalls' = phCalls + 1
    /\ UNCHANGED <<poolVars, arrayVars, dispVars>>
    /\ UNCHANGED <<cmdVars, mergeVars, ngxConfVars, lifeVars>>

NextPhases ==
    \/ \E phase \in Phases, handler \in Handlers, grow \in GrowChoices :
           AddPhaseHandler(phase, handler, grow)
    \/ \E grow \in GrowChoices, ub \in {"alias", "fault"} : AwssigPostconfiguration(grow, ub)
    \/ \E grow \in GrowChoices : CurlPostconfiguration(grow)

vars == <<poolVars, arrayVars, dispVars, confVars>>

Init ==
    /\ PoolInit /\ ArrayInit /\ DispInit
    /\ CommandInit /\ MergeInit /\ NgxConfInit /\ LifeInit
    /\ PhaseInit

SpecPool == Init /\ [][NextPool]_vars

SpecArray == Init /\ [][NextArray]_vars

SpecDispatch == Init /\ [][NextDispatch]_vars

SpecCommand == Init /\ [][NextCommand]_vars

SpecMerge == Init /\ [][NextMerge]_vars

SpecNgxConf == Init /\ [][NextNgxConf]_vars

SpecLifecycle == Init /\ [][NextLifecycle]_vars

SpecPhases == Init /\ [][NextPhases]_vars

\* ================================================================= claims
Range(s) == { s[i] : i \in 1..Len(s) }

\* the values whose cleanup entry ngx_destroy_pool would still find
ReachableValues ==
    { mem[mem[c].data].value :
        c \in { e \in Range(CleanupChain(mem, cleanup)) :
                  mem[e].data # NULL /\ mem[mem[e].data].kind = "value" } }

\* C1: after any sequence of successful Pool::allocate calls every value's
\* cleanup entry stays reachable from the arena's cleanup list, and teardown
\* runs the destructor of each allocated value exactly once.
C1_EveryDestructorRunsOnce ==
    /\ ~destroyed => \A i \in 1..Len(registered) : registered[i] \in ReachableValues
    /\ destroyed => \A i \in 1..Len(registered) : drops[registered[i]] = 1

\* C2: at teardown the destructors registered through Pool::allocate run in
\* registration order: A allocated before B implies A's destructor runs
\* before B's.
C2_TeardownInRegistrationOrder ==
    destroyed =>
        \A i, j \in 1..Len(registered) :
            i < j => \E a, b \in 1..Len(dropOrder) :
                        /\ a < b
                        /\ dropOrder[a] = registered[i]
                        /\ dropOrder[b] = registered[j]

\* the last operation was a Pool::allocate of a sized value whose cleanup
\* registration the host refused
CleanupRegistrationFailed ==
    /\ poolRet.op = "allocate"
    /\ ~poolRet.zst
    /\ Len(poolRet.calls) = 2
    /\ poolRet.calls[1].ret # NULL
    /\ poolRet.calls[2].ret = NULL

\* C3: Pool::allocate of a sized value returns None only if ngx_palloc or
\* ngx_pool_cleanup_add returned null; when the registration fails the value
\* written into the arena has had its destructor run exactly once and no
\* cleanup entry refers to it, now or after teardown.
C3_AllocateFailsOnlyOnHostFailure ==
    /\ (poolRet.op = "allocate" /\ ~poolRet.zst /\ ~poolRet.some) =>
          /\ poolRet.calls # <<>>
          /\ poolRet.calls[Len(poolRet.calls)].ret = NULL
    /\ (poolRet.op = "allocate" /\ ~poolRet.zst /\ poolRet.some) =>
          \A i \in 1..Len(poolRet.calls) : poolRet.calls[i].ret # NULL
    /\ CleanupRegistrationFailed => drops[poolRet.value] = 1
    /\ \A a \in Addr :
          (mem[a].kind = "value" /\ mem[a].value \notin Range(registered)) =>
             /\ drops[mem[a].value] = 1
             /\ \A c \in Addr : mem[c].kind = "cln" => mem[c].data # a

C3_Witness ==
    /\ CleanupRegistrationFailed
    /\ drops[poolRet.value] = 1
    /\ registered # <<>>

\* C4: whenever Pool::allocate returns None the arena's cleanup list is what
\* it was before the call, and arena teardown invokes no destructor for the
\* value that was passed in.
C4_FailedAllocateLeavesCleanupList ==
    /\ (poolRet.op = "allocate" /\ ~poolRet.some) =>
          /\ cleanup = poolRet.before.cleanup
          /\ \A a \in Addr :
                (mem[a].kind = "cln" \/ poolRet.before.mem[a].kind = "cln")
                    => mem[a] = poolRet.before.mem[a]
          /\ poolRet.value \notin Range(TeardownOrder(mem, cleanup))
    /\ destroyed => \A i \in 1..Len(dropOrder) : dropOrder[i] \in Range(registered)

C4_Witness ==
    /\ destroyed
    /\ dropOrder # <<>>
    /\ \E a \in Addr : mem[a].kind = "value" /\ mem[a].value \notin Range(registered)

\* C5: allocation of a zero-sized type (Pool::allocate and
\* Pool::allocate_uninit_zeroed) makes no host call, returns Some with the
\* dangling sentinel and leaves the arena as it was, also when the arena is
\* exhausted.
C5_ZeroSizedNeverTouchesArena ==
    (poolRet.op \in {"allocate", "allocate_uninit_zeroed"} /\ poolRet.zst) =>
        /\ poolRet.some
        /\ poolRet.ptr = DANGLING
        /\ poolRet.calls = <<>>
        /\ mem = poolRet.before.mem
        /\ brk = poolRet.before.brk
        /\ cleanup = poolRet.before.cleanup

C5_Witness ==
    /\ poolRet.op = "allocate"
    /\ poolRet.zst
    /\ poolRet.some
    /\ brk = MaxBlocks

\* C6: Array::push returns Err exactly when ngx_array_push returned null, and
\* then element count and contents are unchanged; otherwise the count grows
\* by one, the pushed value is the last element and the earlier elements keep
\* their values and order.
C6_PushAppendsOrFailsCleanly ==
    arrRet.op = "push" =>
        /\ ~arrRet.ok <=> arrRet.host = NullElt
        /\ ~arrRet.ok =>
              /\ arr.nelts = arrRet.before.arr.nelts
              /\ SliceItems(stores, deref(arr)) = arrRet.before.items
        /\ arrRet.ok =>
              /\ arr.nelts = arrRet.before.arr.nelts + 1
              /\ SliceItems(stores, deref(arr)) = Append(arrRet.before.items, arrRet.value)

C6_Witness ==
    /\ arrRet.op = "push"
    /\ ~arrRet.ok
    /\ arr.nelts >= 2
    /\ arr.elts # InitArr.elts

\* C7: every access through an Array view re-reads the host header: the
\* slice has the header's current element pointer and current count, also
\* after pushes that moved the storage.
C7_SliceFromCurrentHeader ==
    arrRet.op \in {"deref", "deref_mut"} =>
        /\ slice.ptr = arr.elts
        /\ slice.len = arr.nelts
        /\ Len(stores[slice.ptr]) >= slice.len

C7_Witness ==
    /\ arrRet.op = "deref"
    /\ arr.elts # InitArr.elts
    /\ slice.ptr = arr.elts
    /\ slice.len >= 2

\* the last dispatch went through the callback of command! with the pointers
\* the host guarantees for a directive occurrence
BridgeDispatched ==
    /\ dispRet.op = "raw_c_handler"
    /\ dispRet.confPtr # NULL
    /\ dispRet.argsPtr # NULL

C9_BridgeMapsResult ==
    BridgeDispatched =>
        /\ dispRet.calls = 1
        /\ locConf = set_loc_conf(<<dispRet.argv[2]>>, dispRet.before).conf
        /\ dispRet.ok = set_loc_conf(<<dispRet.argv[2]>>, dispRet.before).ok
        /\ dispRet.ret = NGX_CONF_OK <=> dispRet.ok
        /\ dispRet.ret = NGX_CONF_ERROR <=> ~dispRet.ok

C9_Witness ==
    /\ BridgeDispatched
    /\ dispRet.ret = NGX_CONF_ERROR
    /\ locConf > 0

\* the tokens C10 names
IsOn(t) == eq_ignore_ascii_case(t, <<"o", "n">>)
IsOff(t) == eq_ignore_ascii_case(t, <<"o", "f", "f">>)

\* the flag the last flag directive left in its configuration value
FlagAfter == IF dispRet.op = "set_curl" THEN curlConf.enable ELSE awsEnable

\* C10: boolean directive parsing is case-insensitive and strict: "on" in any
\* case sets enable, "off" in any case clears it, any other token makes the
\* handler report failure to the host.
C10_FlagParsingStrict ==
    (dispRet.op \in {"set_curl", "set_enable"} /\ dispRet.ret # PANICKED) =>
        /\ IsOn(dispRet.argv[2]) => (FlagAfter /\ dispRet.ok)
        /\ IsOff(dispRet.argv[2]) => (~FlagAfter /\ dispRet.ok)
        /\ (~IsOn(dispRet.argv[2]) /\ ~IsOff(dispRet.argv[2])) => ~dispRet.ok

\* C11: for every argument constraint and every non-empty list of allowed
\* scopes, the type bitmask Command::new computes is exactly the argument bits
\* or-ed with the scope bit of every listed scope: it depends only on the set
\* of scopes listed, so neither duplicates nor their order matter.
C11_TypeIsArgBitsOrScopeBits ==
    cmd.op = "new" /\ cmd.allowed_contexts # <<>> =>
        /\ ~cmd.panicked
        /\ cmd.ty = ArgType_into_cmd_ty(cmd.arg) \cup
                    UNION { CommandContext_into_cmd_ty(c) :
                            c \in Range(cmd.allowed_contexts) }

\* a TAKE1 directive allowed in the Group and Route scopes, as awssig declares
C11_Witness ==
    /\ cmd.op = "new"
    /\ cmd.arg = "One"
    /\ cmd.allowed_contexts = <<"Loc", "Srv">>
    /\ cmd.ty = {1, 26, 27}

\* C12: NgxConf::new yields an accessor if and only if the raw context pointer
\* is non-null and properly aligned and the module pointer is non-null and
\* properly aligned.
C12_AccessorIffBothPointersGood ==
    ngxConf.op = "new" =>
        (ngxConf.some <=>
            /\ ngxConf.inner # NULL
            /\ ngxConf.inner % ALIGN = 0
            /\ ngxConf.module # NULL
            /\ ngxConf.module % ALIGN = 0)

\* both pointers good: the accessor is built
C12_Witness ==
    /\ ngxConf.op = "new"
    /\ ngxConf.inner = ALIGN
    /\ ngxConf.module = 2 * ALIGN
    /\ ngxConf.some

\* C14: a merge never overwrites a value the child set itself: every field
\* that was set (a non-empty string, an enabled flag) in the child before the
\* merge has the same value after it, so only unset fields take the parent's.
C14_MergeKeepsChildValues ==
    mergeRet.op = "merge" =>
        /\ mergeRet.impl \in {"curl", "awssig"} =>
               (mergeRet.self.enable => mergeRet.after.enable)
        /\ mergeRet.impl = "awssig" =>
               \A f \in StringFields :
                   mergeRet.self[f] # <<>> => mergeRet.after[f] = mergeRet.self[f]

\* a child with its own access key is merged with a parent holding another
\* key and a secret: the child keeps its key and takes the parent's secret
C14_Witness ==
    /\ mergeRet.op = "merge"
    /\ mergeRet.impl = "awssig"
    /\ mergeRet.self.access_key # <<>>
    /\ mergeRet.prev.access_key # <<>>
    /\ mergeRet.prev.access_key # mergeRet.self.access_key
    /\ mergeRet.self.secret_key = <<>>
    /\ mergeRet.prev.secret_key # <<>>
    /\ mergeRet.after.access_key = mergeRet.self.access_key
    /\ mergeRet.after.secret_key = mergeRet.prev.secret_key

\* C19: merging a value against a default-valued parent never changes a field
\* that is already set, and merging the result against the default a second
\* time leaves it exactly as the first merge left it.
C19_MergeWithDefaultIdempotent ==
    mergeRet.op = "merge" /\ mergeRet.prev = Default(mergeRet.impl) =>
        /\ mergeRet.after2 = mergeRet.after
        /\ mergeRet.ok2 = mergeRet.ok
        /\ mergeRet.impl \in {"curl", "awssig"} =>
               mergeRet.after.enable = mergeRet.self.enable
        /\ mergeRet.impl = "awssig" =>
               \A f \in StringFields :
                   mergeRet.self[f] # <<>> => mergeRet.after[f] = mergeRet.self[f]

\* a value with its own access key and no endpoint is merged against the
\* default: the key stays, the endpoint becomes the built-in one, and the
\* second merge changes nothing
C19_Witness ==
    /\ mergeRet.op = "merge"
    /\ mergeRet.impl = "awssig"
    /\ mergeRet.prev = AwsDefault
    /\ mergeRet.self.s3_endpoint = <<>>
    /\ mergeRet.self.access_key # <<>>
    /\ mergeRet.ok
    /\ mergeRet.after.access_key = mergeRet.self.access_key
    /\ mergeRet.after.s3_endpoint = S3_ENDPOINT
    /\ mergeRet.after2 = mergeRet.after

\* the eight raw lifecycle callbacks
LifecycleCallbacks ==
    {"preconfiguration", "postconfiguration", "create_main_conf", "create_srv_conf",
     "create_loc_conf", "init_main_conf", "merge_srv_conf", "merge_loc_conf"}

\* the error sentinel of a raw callback: NGX_ERROR, null or NGX_CONF_ERROR
ErrorSentinel(op) ==
    CASE op \in {"preconfiguration", "postconfiguration"} -> NGX_ERROR
      [] op \in {"create_main_conf", "create_srv_conf", "create_loc_conf"} -> NULL
      [] OTHER -> NGX_CONF_ERROR

\* the last callback was handed a null context pointer, or one no accessor can
\* be built from, or a null configuration-value pointer
BadPointers ==
    \/ lcModule.family = "typed" /\ lcRet.cf = NULL
    \/ lcModule.family = "safe" /\ ~NgxConf_new(lcRet.cf, lcModule.ptr).some
    \/ /\ lcRet.op \in {"init_main_conf", "merge_srv_conf", "merge_loc_conf"}
       /\ lcRet.confPtr = NULL
    \/ /\ lcRet.op \in {"merge_srv_conf", "merge_loc_conf"}
       /\ lcRet.prevPtr = NULL

\* C13: each of the eight raw lifecycle callbacks of the glue, when its context
\* pointer is null or no accessor can be built, or a configuration-value
\* pointer it receives is null, returns its error sentinel without invoking
\* the typed callback and without changing any configuration value.
C13_BadPointerGivesSentinel ==
    /\ lcRet.op \in LifecycleCallbacks
    /\ lcModule.family \in {"typed", "safe"}
    /\ BadPointers
    => /\ lcRet.ret = ErrorSentinel(lcRet.op)
       /\ ~lcRet.invoked
       /\ lcTiers = lcRet.before

\* the merge of Route with Group is handed a null child pointer after the
\* parser stored an access key: NGX_CONF_ERROR, nothing merged
C13_Witness ==
    /\ lcRet.op = "merge_loc_conf"
    /\ lcModule.family = "safe"
    /\ lcRet.child = Route
    /\ lcRet.cf = ALIGN
    /\ lcRet.prevPtr = VALID
    /\ lcRet.confPtr = NULL
    /\ lcRet.ret = NGX_CONF_ERROR
    /\ ~lcRet.invoked
    /\ lcParsed[Group].access_key # <<>>
    /\ lcTiers = lcRet.before

\* both tier-pair merges returned NGX_CONF_OK
ChainHasRun == lcPc \in {"postconfiguration", "done"}

\* C15: enable is monotone under merge: after the merge chain Global to Group
\* to Route has run, a scope has enable set whenever one of its ancestor tiers
\* had enable set (child.enable after = child.enable before or parent.enable).
C15_EnableMonotoneUnderMerge ==
    ChainHasRun =>
        \A t \in Tiers :
            (\E a \in Tiers : a < t /\ lcParsed[a].enable) => lcTiers[t].enable

\* the name of the module's flag directive
FlagDirective == IF lcModule.impl = "curl" THEN "curl" ELSE "awssigv4"

\* the flag was switched on at Global, nothing was written at Group, and the
\* flag was switched off at Route
OnAtGlobalOffAtRoute ==
    /\ ChainHasRun
    /\ <<Global, FlagDirective, <<"o", "n">>>> \in lcSaid
    /\ <<Global, FlagDirective, <<"o", "f", "f">>>> \notin lcSaid
    /\ \A d \in lcSaid : d[1] # Group
    /\ <<Route, FlagDirective, <<"o", "f", "f">>>> \in lcSaid
    /\ <<Route, FlagDirective, <<"o", "n">>>> \notin lcSaid

C17_InheritanceReachesLeaf ==
    ChainHasRun /\ lcModule.impl = "awssig" =>
        \A f \in RequiredFields :
            lcParsed[Route][f] = <<>> =>
                /\ lcParsed[Group][f] # <<>> =>
                       lcTiers[Route][f] = lcParsed[Group][f]
                /\ lcParsed[Group][f] = <<>> /\ lcParsed[Global][f] # <<>> =>
                       lcTiers[Route][f] = lcParsed[Global][f]

\* the first tier-pair merge whose merged value has enable true: 1 is Group
\* with Global, 2 is Route with Group, 0 is none
FirstEnabledPair ==
    IF lcParsed[Global].enable \/ lcParsed[Group].enable THEN 1
    ELSE IF lcParsed[Route].enable THEN 2
    ELSE 0

\* C18: when a required string field is unset at every tier, the merge chain
\* fails with NoValue, and the raw merge callback returns NGX_CONF_ERROR, at
\* the first tier-pair merge whose merged value has enable true; with enable
\* false at every tier every merge succeeds.
C18_MissingRequiredFieldFailsMerge ==
    /\ lcModule.impl = "awssig"
    /\ Len(lcMerges) >= 1
    /\ \A i \in 1..Len(lcMerges) : lcMerges[i].invoked
    /\ \E f \in RequiredFields : \A t \in Tiers : lcParsed[t][f] = <<>>
    => \A i \in 1..Len(lcMerges) :
           IF i = FirstEnabledPair
           THEN lcMerges[i].ret = NGX_CONF_ERROR /\ lcMerges[i].err = "NoValue"
           ELSE lcMerges[i].ret = NGX_CONF_OK

\* enable is on at Route only and no tier has a secret key: the merge of Group
\* with Global succeeds, the merge of Route with Group fails
C18_Witness ==
    /\ lcModule.impl = "awssig"
    /\ Len(lcMerges) = 2
    /\ \A t \in Tiers : lcParsed[t].secret_key = <<>>
    /\ lcParsed[Route].enable
    /\ ~lcParsed[Group].enable
    /\ ~lcParsed[Global].enable
    /\ lcMerges[1].ret = NGX_CONF_OK
    /\ lcMerges[2].ret = NGX_CONF_ERROR
    /\ lcMerges[2].err = "NoValue"
    /\ lcPc = "failed"

\* C20: a merge callback for a child scope changes only the child's value: the
\* parent's value, and every other tier's, is as it was before the call.
C20_MergeLeavesParentUnchanged ==
    lcRet.op = "merge_loc_conf" =>
        \A t \in Tiers : t # lcRet.child => lcTiers[t] = lcRet.before[t]

\* C26: Pool::allocate_uninit_zeroed registers no destructor: for a type that
\* is not zero-sized it returns Some exactly when the host's zeroing allocation
\* returned a non-null block, that block is all zero, and the cleanup list of
\* the arena is the same before and after the call.
C26_ZeroedAllocationRegistersNothing ==
    poolRet.op = "allocate_uninit_zeroed" /\ ~poolRet.zst =>
        /\ Len(poolRet.calls) = 1
        /\ poolRet.calls[1].fn = "ngx_pcalloc"
        /\ poolRet.some <=> poolRet.calls[1].ret # NULL
        /\ poolRet.some => poolRet.ptr = poolRet.calls[1].ret /\ mem[poolRet.ptr] = ZeroCell
        /\ cleanup = poolRet.before.cleanup
        /\ CleanupChain(mem, cleanup) = CleanupChain(poolRet.before.mem, poolRet.before.cleanup)
        /\ \A c \in Range(CleanupChain(mem, cleanup)) : mem[c] = poolRet.before.mem[c]

\* a zeroed block is handed out from an arena that already holds a destructor
C26_Witness ==
    /\ poolRet.op = "allocate_uninit_zeroed"
    /\ ~poolRet.zst
    /\ poolRet.some
    /\ mem[poolRet.ptr] = ZeroCell
    /\ cleanup # NULL
    /\ cleanup = poolRet.before.cleanup

\* C28: when Merge::merge fails with NoValue the child value is exactly as it
\* was before the call: neither its enable flag nor any of its string fields
\* has been changed by the failed merge.
C28_FailedMergeLeavesChild ==
    mergeRet.op = "merge" /\ ~mergeRet.ok => mergeRet.after = mergeRet.self

\* C30: Command::new accepts the empty list of allowed scopes: it completes
\* without a fault and the type bitmask is exactly the argument bits.
C30_EmptyScopeListAccepted ==
    cmd.op = "new" /\ cmd.allowed_contexts = <<>> =>
        /\ ~cmd.panicked
        /\ cmd.ty = ArgType_into_cmd_ty(cmd.arg)

\* C29: create_buffer_from_static_str, when it returns Some, leaves in the arena
\* a buffer header whose memory flag is set and whose pos..last covers exactly
\* the bytes of the static string; it returns None exactly when the arena
\* allocation of the header fails.
C29_StaticBufferHeader ==
    poolRet.op = "create_buffer_from_static_str" =>
        /\ poolRet.some =>
               /\ mem[poolRet.ptr].buf.memory = 1
               /\ Buffer_as_bytes(mem[poolRet.ptr].buf) = poolRet.str
        /\ ~poolRet.some <=> poolRet.calls[1].ret = NULL

\* a registration through NgxMainConf::add_phase_handler that returned
ViaAddPhaseHandler ==
    phRet.op \in {"add_phase_handler", "awssig_postconfiguration"} /\ ~phRet.fault

\* C23: add_phase_handler(phase, handler) fails exactly when the host's array
\* append fails; on Ok the named phase's list is the old list with handler at
\* the end and the other ten phases' lists are unchanged; on Err every list is
\* unchanged.
C23_AppendsToNamedPhaseOnly ==
    ViaAddPhaseHandler =>
        LET old == phRet.before[phRet.slot]
            new == phMainConf[phRet.slot]
        IN
        /\ ~phRet.ok <=> phRet.host = NullElt
        /\ phRet.ok =>
               /\ PhaseList(new, phRet.phase) =
                      Append(PhaseList(old, phRet.phase), phRet.handler)
               /\ \A q \in Phases \ {phRet.phase} : PhaseList(new, q) = PhaseList(old, q)
        /\ ~phRet.ok => \A q \in Phases : PhaseList(new, q) = PhaseList(old, q)

C23_Witness ==
    /\ phRet.op = "add_phase_handler"
    /\ phRet.ok
    /\ PhaseList(phRet.before[phRet.slot], phRet.phase) # <<>>
    /\ PhaseList(phMainConf[phRet.slot], phRet.phase) =
           Append(PhaseList(phRet.before[phRet.slot], phRet.phase), phRet.handler)

\* the handlers registered successfully for phase p of slot i, in call order
RegisteredFor(i, p) ==
    LET mine == SelectSeq(phLog, LAMBDA e : e.slot = i /\ e.phase = p)
    IN [k \in 1..Len(mine) |-> mine[k].handler]

\* C24: after any sequence of successful registrations each phase's list is
\* exactly the handlers registered for that phase, in call order.
C24_PhaseListInRegistrationOrder ==
    \A i \in DOMAIN phMainConf : \A p \in Phases :
        PhaseList(phMainConf[i], p) = RegisteredFor(i, p)

C24_Witness ==
    \E p \in Phases :
        LET l == PhaseList(phMainConf[ngx_http_core_module.ctx_index], p) IN
        /\ Len(l) = 2
        /\ l[1] # l[2]
        /\ l = RegisteredFor(ngx_http_core_module.ctx_index, p)

\* C27: a handler registered in postconfiguration through
\* NgxConf::main_conf().add_phase_handler is appended to the phase table inside
\* the core module's Global configuration, which the host traverses, and not
\* to the Global configuration slot of the registering module.
C27_RegisteredInCorePhaseTable ==
    phRet.op = "awssig_postconfiguration" /\ phRet.ok =>
        LET core == ngx_http_core_module.ctx_index
            own == ngx_http_awssigv4_module.ctx_index
        IN
        /\ PhaseList(phMainConf[core], PreContent) =
               Append(PhaseList(phRet.before[core], PreContent), awssigv4_header_handler)
        /\ phMainConf[own] = phRet.before[own]

CreateCallbacks == {"create_main_conf", "create_srv_conf", "create_loc_conf"}

\* the callback that just ran was the trait's default and got a usable context
DefaultCallbackRan == lcRet.typed = "default" /\ lcRet.invoked

\* the arena is as the callback found it
ArenaUntouched == PoolState = lcRet.arena

\* C21: for a module that overrides no callback, a Create* callback that is
\* granted its allocation returns a pointer to a value equal to the tier
\* type's default, placed in a fresh block of the current arena (the pointer
\* Pool::allocate gives for a zero-sized type otherwise); a Merge* callback on
\* the unit type changes nothing and succeeds; preconfiguration,
\* init_main_conf and postconfiguration succeed without changing any state.
C21_DefaultCallbacks ==
    DefaultCallbackRan =>
        /\ (lcRet.op \in CreateCallbacks /\ lcRet.result = "Some") =>
               /\ lcRet.ret # NULL
               /\ IF lcRet.zst
                  THEN lcRet.ret = DANGLING /\ mem = lcRet.arena.mem
                  ELSE /\ lcRet.arena.mem[lcRet.ret] = FreeCell
                       /\ mem[lcRet.ret] = ValueCell(lcRet.value)
               /\ lcRet.op = "create_loc_conf" =>
                      \A t \in Tiers : lcTiers[t] = Default(lcModule.impl)
        /\ lcRet.op = "merge_srv_conf" =>
               /\ lcRet.ret = NGX_CONF_OK
               /\ lcTiers = lcRet.before
               /\ ArenaUntouched
        /\ lcRet.op \in {"preconfiguration", "postconfiguration"} =>
               /\ lcRet.ret = NGX_OK
               /\ lcTiers = lcRet.before
               /\ ArenaUntouched
        /\ lcRet.op = "init_main_conf" =>
               /\ lcRet.ret = NGX_CONF_OK
               /\ lcTiers = lcRet.before
               /\ ArenaUntouched

\* the default create_loc_conf has put the default LocConf in the arena
C21_Witness ==
    /\ DefaultCallbackRan
    /\ lcRet.op = "create_loc_conf"
    /\ lcRet.result = "Some"
    /\ mem[lcRet.ret] = ValueCell(lcRet.value)
    /\ \A t \in Tiers : lcTiers[t] = Default(lcModule.impl)

\* C22: a raw lifecycle callback returns its success value exactly when the
\* typed callback succeeded: NGX_OK from preconfiguration / postconfiguration
\* iff it returned Ok, NGX_CONF_OK from init_main_conf / merge_srv_conf /
\* merge_loc_conf iff it returned Ok, a non-null pointer from Create* iff the
\* allocation succeeded.
C22_SuccessIffTypedCallbackSucceeded ==
    /\ lcRet.op \in {"preconfiguration", "postconfiguration"} =>
           (lcRet.ret = NGX_OK <=> lcRet.result = "Ok")
    /\ lcRet.op \in {"init_main_conf", "merge_srv_conf", "merge_loc_conf"} =>
           (lcRet.ret = NGX_CONF_OK <=> lcRet.result = "Ok")
    /\ lcRet.op \in CreateCallbacks =>
           (lcRet.ret \notin {NULL, PANICKED} <=> lcRet.result = "Some")

\* a typed merge_loc_conf failed and the host was told so
C22_Witness ==
    /\ lcRet.op = "merge_loc_conf"
    /\ lcRet.invoked
    /\ lcRet.result = "NoValue"
    /\ lcRet.ret = NGX_CONF_ERROR

\* C25: configuration-time code returns the host's error sentinel instead of
\* panicking: the dispatch bridge when it is handed a null configuration-value
\* pointer or a null argument array, a Create* callback when the context
\* carries a null arena pointer.
C25_NullPointerGivesSentinel ==
    /\ (dispRet.op = "raw_c_handler" /\ (dispRet.confPtr = NULL \/ dispRet.argsPtr = NULL)) =>
           dispRet.ret = NGX_CONF_ERROR
    /\ (lcRet.op \in CreateCallbacks /\ lcRet.invoked /\ lcRet.pool = NULL) =>
           lcRet.ret = NULL

====
